---- MODULE Spec2Model ----
(***************************************************************************)
(* Tool Requirement Matcher of src/src/lib/workAssistant.ts:               *)
(* normalizeToolMatches reconciles the tool matches proposed by the remote *)
(* model with a local heuristic (findBestInventoryMatch) over the user's   *)
(* inventory, then collapses duplicate requirement names.                  *)
(*                                                                         *)
(* Strings are sequences of one-character strings, so that toLowerCase,    *)
(* the two regular-expression replacements, trim, split, join and includes *)
(* are computed character by character as the JavaScript does.             *)
(*                                                                         *)
(* Scores are kept in units of 1/1200, in which 0.7, 0.08 and 0.3 * a / n  *)
(* for n <= 6 are whole numbers.  For requirement names of at most four    *)
(* tokens the IEEE doubles the code computes compare with each other and   *)
(* with 0.62 and 0.42 exactly as these rationals do.                       *)
(***************************************************************************)
EXTENDS Integers, Sequences, FiniteSets, TLC

(* ------------------------------ characters ----------------------------- *)

LowerCaseLetters == <<"a", "b", "c", "d", "e", "f", "g", "h", "i", "j", "k", "l", "m", "n", "o", "p", "q", "r", "s", "t", "u", "v", "w", "x", "y", "z">>
UpperCaseLetters == <<"A", "B", "C", "D", "E", "F", "G", "H", "I", "J", "K", "L", "M", "N", "O", "P", "Q", "R", "S", "T", "U", "V", "W", "X", "Y", "Z">>
DigitChars == <<"0", "1", "2", "3", "4", "5", "6", "7", "8", "9">>

Range(s) == {s[k] : k \in DOMAIN s}

\* the character class \s of the regular expressions and of String.trim
WhiteSpace == {" ", "\t"}

\* the character class [a-z0-9]
AlphaNumeric == Range(LowerCaseLetters) \cup Range(DigitChars)

\* String.prototype.toLowerCase on one character
toLowerCase(c) ==
  IF \E k \in DOMAIN UpperCaseLetters : UpperCaseLetters[k] = c
  THEN LowerCaseLetters[CHOOSE k \in DOMAIN UpperCaseLetters : UpperCaseLetters[k] = c]
  ELSE c

(* ------------------------------- strings ------------------------------- *)

RECURSIVE trimStart(_)
trimStart(s) ==
  IF s # << >> /\ Head(s) \in WhiteSpace THEN trimStart(Tail(s)) ELSE s

RECURSIVE trimEnd(_)
trimEnd(s) ==
  IF s # << >> /\ s[Len(s)] \in WhiteSpace
  THEN trimEnd(SubSeq(s, 1, Len(s) - 1))
  ELSE s

\* String.prototype.trim
trim(s) == trimEnd(trimStart(s))

\* .replace(/[^a-z0-9\s]/g, ' ')
replaceNonAlphaNumeric(s) ==
  [k \in DOMAIN s |-> IF s[k] \in AlphaNumeric \cup WhiteSpace THEN s[k] ELSE " "]

\* .replace(/\s+/g, ' '): every maximal run of white space becomes one space
RECURSIVE collapseWhiteSpace(_)
collapseWhiteSpace(s) ==
  IF s = << >> THEN << >>
  ELSE IF Head(s) \in WhiteSpace
       THEN <<" ">> \o collapseWhiteSpace(trimStart(s))
       ELSE <<Head(s)>> \o collapseWhiteSpace(Tail(s))

normalizeText(value) ==
  trim(collapseWhiteSpace(replaceNonAlphaNumeric(
    [k \in DOMAIN value |-> toLowerCase(value[k])])))

\* String.prototype.includes
includes(text, part) ==
  \E k \in 0 .. (Len(text) - Len(part)) : SubSeq(text, k + 1, k + Len(part)) = part

\* String.prototype.split(' '): the pieces between the spaces, empty ones kept
RECURSIVE split(_)
split(s) ==
  IF \E k \in DOMAIN s : s[k] = " "
  THEN LET k == CHOOSE j \in DOMAIN s : s[j] = " " /\ \A h \in 1 .. (j - 1) : s[h] # " "
       IN  <<SubSeq(s, 1, k - 1)>> \o split(SubSeq(s, k + 1, Len(s)))
  ELSE <<s>>

\* Array.prototype.join(' ')
RECURSIVE join(_)
join(parts) ==
  IF parts = << >> THEN << >>
  ELSE IF Len(parts) = 1 THEN parts[1]
       ELSE parts[1] \o <<" ">> \o join(Tail(parts))

IsNonEmpty(s) == s # << >>

toTokens(value) == SelectSeq(split(normalizeText(value)), IsNonEmpty)

(* --------------------------- synonym table ----------------------------- *)

KeyDrill == <<"d", "r", "i", "l", "l">>
KeyScrewdriver == <<"s", "c", "r", "e", "w", "d", "r", "i", "v", "e", "r">>
KeyWrench == <<"w", "r", "e", "n", "c", "h">>
KeyHammer == <<"h", "a", "m", "m", "e", "r">>
KeyLevel == <<"l", "e", "v", "e", "l">>
KeySaw == <<"s", "a", "w">>
KeyPliers == <<"p", "l", "i", "e", "r", "s">>
KeyTape == <<"t", "a", "p", "e">>

\* keywordSynonyms[token] || []
keywordSynonyms(token) ==
  CASE token = KeyDrill ->
         <<<<"d", "r", "i", "v", "e", "r">>, <<"d", "r", "i", "l", "l", " ", "d", "r", "i", "v", "e", "r">>, <<"p", "o", "w", "e", "r", " ", "d", "r", "i", "l", "l">>, <<"c", "o", "r", "d", "l", "e", "s", "s", " ", "d", "r", "i", "l", "l">>>>
    [] token = KeyScrewdriver ->
         <<<<"d", "r", "i", "v", "e", "r">>, <<"p", "h", "i", "l", "i", "p", "s">>, <<"f", "l", "a", "t", "h", "e", "a", "d">>, <<"s", "c", "r", "e", "w", " ", "d", "r", "i", "v", "e", "r">>>>
    [] token = KeyWrench ->
         <<<<"s", "p", "a", "n", "n", "e", "r">>, <<"s", "o", "c", "k", "e", "t", " ", "w", "r", "e", "n", "c", "h">>, <<"a", "d", "j", "u", "s", "t", "a", "b", "l", "e", " ", "w", "r", "e", "n", "c", "h">>>>
    [] token = KeyHammer -> <<<<"m", "a", "l", "l", "e", "t">>, <<"c", "l", "a", "w", " ", "h", "a", "m", "m", "e", "r">>>>
    [] token = KeyLevel -> <<<<"s", "p", "i", "r", "i", "t", " ", "l", "e", "v", "e", "l">>, <<"l", "a", "s", "e", "r", " ", "l", "e", "v", "e", "l">>>>
    [] token = KeySaw -> <<<<"h", "a", "n", "d", "s", "a", "w">>, <<"c", "i", "r", "c", "u", "l", "a", "r", " ", "s", "a", "w">>, <<"j", "i", "g", "s", "a", "w">>>>
    [] token = KeyPliers -> <<<<"n", "e", "e", "d", "l", "e", " ", "n", "o", "s", "e">>, <<"s", "l", "i", "p", " ", "j", "o", "i", "n", "t">>, <<"l", "o", "c", "k", "i", "n", "g", " ", "p", "l", "i", "e", "r", "s">>>>
    [] token = KeyTape -> <<<<"m", "e", "a", "s", "u", "r", "i", "n", "g", " ", "t", "a", "p", "e">>, <<"t", "a", "p", "e", " ", "m", "e", "a", "s", "u", "r", "e">>>>
    [] OTHER -> << >>

\* keywordSynonyms is an object literal, so keywordSynonyms[token] also finds
\* what Object.prototype defines; of those names only this one is a token
\* (lower-case letters and digits), and its value is a function
InheritedKey == <<"c", "o", "n", "s", "t", "r", "u", "c", "t", "o", "r">>

(* ------------------------------- scoring ------------------------------- *)

\* 0.7, 0.3 and 0.08 of findBestInventoryMatch, in units of 1/1200
SubstringBonus == 840
TokenOverlapWeight == 360
SynonymBonus == 96

\* 0.62 and 0.42 of normalizeToolMatches, in units of 1/1200
OwnedThreshold == 744
AlternativeThreshold == 504

\* JavaScript null and undefined, where the other values are records
Null == [null |-> TRUE]

\* a null category column (the other categories are strings)
NullText == <<"null">>

\* a truthy value that is not a string (a number such as 42) in a field the
\* types declare as a string; the parsed answer of the remote model is unchecked
NumberValue == <<"number">>

\* typeof value === 'string'
isString(value) == value \notin {NullText, NumberValue}

\* value || ''
orEmpty(value) == IF value = NullText THEN << >> ELSE value

\* the text Array.prototype.join gives an element: '' for null and undefined
elementText(value) == IF value = NullText THEN << >> ELSE value

\* candidate.category || ''
categoryOrEmpty(candidate) ==
  IF candidate.category = NullText \/ candidate.category = << >>
  THEN << >>
  ELSE candidate.category

\* [candidate.name, candidate.description, candidate.category || '',
\*  ...(candidate.tags || [])].join(' ')
corpusTextOf(candidate) ==
  join(<<elementText(candidate.name), elementText(candidate.description),
         categoryOrEmpty(candidate)>>
       \o candidate.tags)

\* mutant: only the text of the candidate is searched for the requirement
substringConditionCorpusOnly(required, candidate) ==
  includes(normalizeText(corpusTextOf(candidate)), required)

\* corpus.includes(required) || required.includes(normalizeText(candidate.name))
substringCondition(required, candidate) ==
  \/ includes(normalizeText(corpusTextOf(candidate)), required)
  \/ includes(required, normalizeText(candidate.name))

\* requiredTokens.filter(token => corpusTokens.has(token)).length
overlapCount(requiredTokens, candidate) ==
  LET corpusTokens == Range(toTokens(corpusTextOf(candidate)))
      has(token) == token \in corpusTokens
  IN  Len(SelectSeq(requiredTokens, has))

\* synonyms.some(s => corpus.includes(normalizeText(s)))
someSynonymIn(token, corpus) ==
  LET synonyms == keywordSynonyms(token)
  IN  \E k \in DOMAIN synonyms : includes(corpus, normalizeText(synonyms[k]))

\* for (const token of requiredTokens) { ... score += 0.08 }
RECURSIVE synonymLoop(_, _)
synonymLoop(requiredTokens, corpus) ==
  IF requiredTokens = << >> THEN 0
  ELSE (IF someSynonymIn(Head(requiredTokens), corpus) THEN SynonymBonus ELSE 0)
       + synonymLoop(Tail(requiredTokens), corpus)

\* the value of `score` when the loop body reaches the comparison with best
scoreOf(requiredToolName, candidate) ==
  LET required == normalizeText(requiredToolName)
      requiredTokens == toTokens(requiredToolName)
      corpus == normalizeText(corpusTextOf(candidate))
  IN  (IF substringCondition(required, candidate) THEN SubstringBonus ELSE 0)
      + (IF Len(requiredTokens) > 0
         THEN (overlapCount(requiredTokens, candidate) * TokenOverlapWeight)
              \div Len(requiredTokens)
         ELSE 0)
      + synonymLoop(requiredTokens, corpus)

\* the loop body raises a TypeError: normalizeText(candidate.name) calls
\* toLowerCase on a name that is no string (evaluated only when the corpus
\* does not include the requirement), and synonyms.some is not a function
\* when keywordSynonyms[token] is the inherited constructor
scoreThrows(requiredToolName, candidate) ==
  LET required == normalizeText(requiredToolName)
      requiredTokens == toTokens(requiredToolName)
      corpus == normalizeText(corpusTextOf(candidate))
  IN  IF ~includes(corpus, required) /\ ~isString(candidate.name)
      THEN TRUE
      ELSE \E k \in DOMAIN requiredTokens : requiredTokens[k] = InheritedKey

\* mutant: a candidate that only equals the best score replaces the best
keepBestLast(best, candidate, score) ==
  IF best = Null \/ score >= best.score
  THEN [item |-> candidate, score |-> score]
  ELSE best

\* if (!best || score > best.score) best = { item: candidate, score }
keepBest(best, candidate, score) ==
  IF best = Null \/ score > best.score
  THEN [item |-> candidate, score |-> score]
  ELSE best

(* --------------------------------- Map --------------------------------- *)
\* A JavaScript Map is a sequence of entries in insertion order.

\* new Map()
newMap == << >>

mapHas(map, key) == \E k \in DOMAIN map : map[k].key = key

\* Map.prototype.get: undefined when the key is absent
mapGet(map, key) ==
  IF mapHas(map, key)
  THEN map[CHOOSE k \in DOMAIN map : map[k].key = key].value
  ELSE Null

\* Map.prototype.set: an existing key keeps its place and takes the new value
mapSet(map, key, value) ==
  IF mapHas(map, key)
  THEN [k \in DOMAIN map |->
          IF map[k].key = key THEN [key |-> key, value |-> value] ELSE map[k]]
  ELSE Append(map, [key |-> key, value |-> value])

\* Array.from(map.values())
mapValues(map) == [k \in DOMAIN map |-> map[k].value]

\* new Map(inventory.map(item => [item.id, item]))
RECURSIVE mapOfItems(_, _)
mapOfItems(map, items) ==
  IF items = << >> THEN map
  ELSE mapOfItems(mapSet(map, Head(items).id, Head(items)), Tail(items))

(* ---------------------------- classification --------------------------- *)

DefaultDescription == <<"U", "s", "e", "f", "u", "l", " ", "f", "o", "r", " ", "t", "h", "i", "s", " ", "t", "a", "s", "k", ".">>
DefaultCategory == <<"G", "e", "n", "e", "r", "a", "l">>
UnspecifiedTool == <<"U", "n", "s", "p", "e", "c", "i", "f", "i", "e", "d", " ", "t", "o", "o", "l">>
DefaultReason == "Can substitute for this task."
ClosestReason == "Closest available match in your inventory."

\* an absent matchStatus, an absent id
NoStatus == "undefined"
NoId == ""

\* (raw.requiredToolName || '').trim()
requiredToolNameOf(raw) == trim(orEmpty(raw.requiredToolName))

\* (raw.description || '').trim() || 'Useful for this task.'
descriptionOf(raw) ==
  IF trim(orEmpty(raw.description)) = << >>
  THEN DefaultDescription
  ELSE trim(orEmpty(raw.description))

\* (raw.category || '').trim() || 'General'
categoryOf(raw) ==
  IF trim(orEmpty(raw.category)) = << >>
  THEN DefaultCategory
  ELSE trim(orEmpty(raw.category))

\* the first three statements of the map callback raise a TypeError: raw is
\* null (raw.requiredToolName), or (value || '') is a truthy non-string, which
\* has no trim method
callbackThrows(raw) ==
  IF raw = Null
  THEN TRUE
  ELSE NumberValue \in {raw.requiredToolName, raw.description, raw.category}

\* mutant: Boolean(raw.required), false for a flag left out
requiredOfTruthy(raw) == raw.required = "true"

\* raw.required !== false
requiredOf(raw) == raw.required # "false"

\* mutant: an id the inventory does not hold is taken from the proposal as it is
resolveProposalTrusting(byId, proposal) ==
  IF proposal # Null /\ proposal.id # NoId
  THEN IF mapHas(byId, proposal.id) THEN mapGet(byId, proposal.id) ELSE proposal
  ELSE Null

\* proposal?.id ? inventoryById.get(proposal.id) : null
resolveProposal(byId, proposal) ==
  IF proposal # Null /\ proposal.id # NoId THEN mapGet(byId, proposal.id) ELSE Null

\* raw.matchStatus || 'missing'
statusOf(raw) == IF raw.matchStatus = NoStatus THEN "missing" ELSE raw.matchStatus

\* raw.alternativeTool?.reason || 'Can substitute for this task.'
reasonOf(raw) ==
  IF raw.alternativeTool # Null /\ raw.alternativeTool.reason # ""
  THEN raw.alternativeTool.reason
  ELSE DefaultReason

\* mutant: the owned threshold is exclusive
confidentOwnedStrict(bestMatch) == bestMatch # Null /\ bestMatch.score > OwnedThreshold

confidentOwned(bestMatch) == bestMatch # Null /\ bestMatch.score >= OwnedThreshold

confidentAlternative(bestMatch) ==
  bestMatch # Null /\ bestMatch.score >= AlternativeThreshold

ownedToolFrom(item) == [id |-> item.id, name |-> item.name, location |-> item.location]

alternativeToolFrom(item, reason) ==
  [id |-> item.id, name |-> item.name, location |-> item.location, reason |-> reason]

\* mutant: the promotion to owned leaves the alternative in its slot
heuristicOutcomeKeepingAlternative(bestMatch) ==
  [matchStatus |-> IF confidentOwned(bestMatch) THEN "owned" ELSE "alternative",
   ownedTool |-> IF confidentOwned(bestMatch) THEN ownedToolFrom(bestMatch.item)
                 ELSE Null,
   alternativeTool |-> alternativeToolFrom(bestMatch.item, ClosestReason)]

\* mutant: the heuristic never promotes its candidate to owned
heuristicOutcomeAlternativeOnly(bestMatch) ==
  [matchStatus |-> "alternative", ownedTool |-> Null,
   alternativeTool |-> alternativeToolFrom(bestMatch.item, ClosestReason)]

\* the branch taken when only the heuristic has a candidate (lines 161-176)
heuristicOutcome(bestMatch) ==
  IF confidentOwned(bestMatch)
  THEN [matchStatus |-> "owned", ownedTool |-> ownedToolFrom(bestMatch.item),
        alternativeTool |-> Null]
  ELSE [matchStatus |-> "alternative", ownedTool |-> Null,
        alternativeTool |-> alternativeToolFrom(bestMatch.item, ClosestReason)]

\* mutant: the final else leaves the matchStatus of the remote model in place
noMatchOutcomeKeepingStatus(raw) ==
  [matchStatus |-> statusOf(raw), ownedTool |-> Null, alternativeTool |-> Null]

\* the final else: matchStatus = 'missing', both slots left null
noMatchOutcome(raw) ==
  [matchStatus |-> "missing", ownedTool |-> Null, alternativeTool |-> Null]

\* mutant: the heuristic is asked before the owned tool the model proposed by id
classifyHeuristicFirst(raw, aiOwned, aiAlternative, bestMatch) ==
  IF statusOf(raw) = "owned" /\ confidentOwned(bestMatch)
  THEN [matchStatus |-> "owned", ownedTool |-> ownedToolFrom(bestMatch.item),
        alternativeTool |-> Null]
  ELSE IF aiOwned # Null
  THEN [matchStatus |-> "owned", ownedTool |-> ownedToolFrom(aiOwned),
        alternativeTool |-> Null]
  ELSE IF aiAlternative # Null
  THEN [matchStatus |-> "alternative", ownedTool |-> Null,
        alternativeTool |-> alternativeToolFrom(aiAlternative, reasonOf(raw))]
  ELSE IF confidentAlternative(bestMatch)
  THEN heuristicOutcome(bestMatch)
  ELSE noMatchOutcome(raw)

\* mutant: the heuristic is asked before the alternative the model proposed by id
classifyHeuristicBeforeAlternative(raw, aiOwned, aiAlternative, bestMatch) ==
  IF aiOwned # Null
  THEN [matchStatus |-> "owned", ownedTool |-> ownedToolFrom(aiOwned),
        alternativeTool |-> Null]
  ELSE IF statusOf(raw) = "owned" /\ confidentOwned(bestMatch)
  THEN [matchStatus |-> "owned", ownedTool |-> ownedToolFrom(bestMatch.item),
        alternativeTool |-> Null]
  ELSE IF confidentAlternative(bestMatch)
  THEN heuristicOutcome(bestMatch)
  ELSE IF aiAlternative # Null
  THEN [matchStatus |-> "alternative", ownedTool |-> Null,
        alternativeTool |-> alternativeToolFrom(aiAlternative, reasonOf(raw))]
  ELSE noMatchOutcome(raw)

\* the if / else-if chain of lines 143-179
classify(raw, aiOwned, aiAlternative, bestMatch) ==
  IF aiOwned # Null
  THEN [matchStatus |-> "owned", ownedTool |-> ownedToolFrom(aiOwned),
        alternativeTool |-> Null]
  ELSE IF statusOf(raw) = "owned" /\ confidentOwned(bestMatch)
  THEN [matchStatus |-> "owned", ownedTool |-> ownedToolFrom(bestMatch.item),
        alternativeTool |-> Null]
  ELSE IF aiAlternative # Null
  THEN [matchStatus |-> "alternative", ownedTool |-> Null,
        alternativeTool |-> alternativeToolFrom(aiAlternative, reasonOf(raw))]
  ELSE IF confidentAlternative(bestMatch)
  THEN heuristicOutcome(bestMatch)
  ELSE noMatchOutcome(raw)

\* the callback of rawMatches.map, given what findBestInventoryMatch returned
toolMatchOf(raw, byId, bestMatch) ==
  LET outcome == classify(raw, resolveProposal(byId, raw.ownedTool),
                          resolveProposal(byId, raw.alternativeTool), bestMatch)
  IN  [requiredToolName |->
         IF requiredToolNameOf(raw) = << >> THEN UnspecifiedTool
         ELSE requiredToolNameOf(raw),
       description |-> descriptionOf(raw),
       category |-> categoryOf(raw),
       required |-> requiredOf(raw),
       matchStatus |-> outcome.matchStatus,
       ownedTool |-> outcome.ownedTool,
       alternativeTool |-> outcome.alternativeTool]

\* mutant: every match with a key is stored, the last one for a key wins
dedupStepLastWins(map, match) ==
  IF normalizeText(match.requiredToolName) = << >> THEN map
  ELSE mapSet(map, normalizeText(match.requiredToolName), match)

\* the body of the deduplication loop (lines 194-198)
dedupStep(map, match) ==
  LET key == normalizeText(match.requiredToolName)
  IN  IF key = << >> THEN map
      ELSE IF \/ ~mapHas(map, key)
              \/ (mapGet(map, key).matchStatus = "missing" /\ match.matchStatus # "missing")
      THEN mapSet(map, key, match)
      ELSE map

(* -------------------------------- inputs ------------------------------- *)

\* the largest inventory, the longest list of requirements of one call and
\* the number of calls that are explored
MaxInv == 2
MaxRaw == 2
MaxCalls == 3

\* rows of the items table; ids are primary keys, names are not null
ItemDrill ==
  [id |-> "a", name |-> <<"D", "r", "i", "l", "l">>, description |-> << >>, category |-> NullText,
   tags |-> << >>, location |-> "Garage"]
ItemMallet ==
  [id |-> "b", name |-> <<"M", "a", "l", "l", "e", "t">>, description |-> <<"d", "r", "i", "l", "l", " ", "d", "r", "i", "v", "e", "r">>,
   category |-> NullText, tags |-> <<<<"h", "a", "m", "m", "e", "r">>>>, location |-> "Shed > Box"]
ItemSaw ==
  [id |-> "c", name |-> <<"S", "a", "w">>, description |-> << >>, category |-> <<"H", "a", "n", "d", " ", "T", "o", "o", "l", "s">>,
   tags |-> << >>, location |-> "Unorganized"]
ItemKit ==
  [id |-> "d", name |-> <<"K", "i", "t">>, description |-> <<"w", "r", "e", "n", "c", "h", " ", "s", "a", "w", " ", "h", "a", "m", "m", "e", "r", " ", "d", "r", "i", "l", "l">>,
   category |-> NullText,
   tags |-> <<<<"d", "r", "i", "v", "e", "r">>, <<"m", "a", "l", "l", "e", "t">>, <<"j", "i", "g", "s", "a", "w">>, <<"s", "p", "a", "n", "n", "e", "r">>>>,
   location |-> "Van"]

ItemPool == {ItemDrill, ItemMallet, ItemSaw, ItemKit}

\* the inventories of at most n different rows of a pool, in every order
InventoriesOf(pool, n) ==
  UNION {{inv \in [1 .. m -> pool] : \A j, k \in 1 .. m : j # k => inv[j] # inv[k]}
         : m \in 0 .. n}

\* requirement names as the remote model may write them
NameDrill == <<"d", "r", "i", "l", "l">>
NameDrillNoisy == <<" ", "D", "r", "i", "l", "l", "!", " ">>
NameBlank == <<" ", " ">>
NamePunctuation == <<"!", "?">>
NameHammerDrill == <<"h", "a", "m", "m", "e", "r", " ", "d", "r", "i", "l", "l">>
NameFourTools == <<"d", "r", "i", "l", "l", " ", "h", "a", "m", "m", "e", "r", " ", "s", "a", "w", " ", "w", "r", "e", "n", "c", "h">>
NameDrillTwice == <<"d", "r", "i", "l", "l", " ", "d", "r", "i", "l", "l">>

ToolNames ==
  {NameDrill, NameDrillNoisy, NameBlank, NamePunctuation, NameHammerDrill, NameFourTools}

\* what the remote model may put in ownedTool and alternativeTool: nothing,
\* or an id that is in the inventory of the call or is not
AiName == <<"f", "r", "o", "m", " ", "t", "h", "e", " ", "m", "o", "d", "e", "l">>
ProposedOwned ==
  {Null} \cup {[id |-> i, name |-> AiName, location |-> "Elsewhere"] : i \in {"b", "c"}}
ProposedAlternative ==
  {Null} \cup {[id |-> i, name |-> AiName, location |-> "Elsewhere", reason |-> ""]
               : i \in {"b", "c"}}

RawOf(names, statuses, owned, alternatives, flags) ==
  [requiredToolName : names, description : {<< >>}, category : {<<" ", "S", "a", "f", "e", "t", "y">>},
   required : flags, matchStatus : statuses,
   ownedTool : owned, alternativeTool : alternatives]

\* every combination, for the calls with one requirement
RawSet ==
  RawOf(ToolNames, {"owned", "alternative", "missing", NoStatus},
        ProposedOwned, ProposedAlternative, {"true", "false"})

\* the requirements of the calls with several: names that collide after
\* normalisation, with and without an owned tool proposed by id
DedupRawSet ==
  RawOf({NameDrill, NameDrillNoisy, NameBlank, NamePunctuation, NameHammerDrill},
        {"missing"},
        {Null, [id |-> "c", name |-> AiName, location |-> "Elsewhere"]},
        {Null}, {"true"})

\* the arguments of the repeated calls: snapshots that change between calls
RawDrill ==
  [requiredToolName |-> NameDrill, description |-> << >>, category |-> << >>,
   required |-> "true", matchStatus |-> "owned", ownedTool |-> Null,
   alternativeTool |-> Null]
RawHammerDrill ==
  [requiredToolName |-> NameHammerDrill, description |-> << >>, category |-> << >>,
   required |-> "false", matchStatus |-> "alternative", ownedTool |-> Null,
   alternativeTool |-> Null]
CallInputs ==
  {[rawMatches |-> <<RawDrill>>, inventory |-> <<ItemMallet>>],
   [rawMatches |-> <<RawHammerDrill, RawDrill>>, inventory |-> <<ItemMallet>>],
   [rawMatches |-> <<RawHammerDrill>>, inventory |-> << >>],
   [rawMatches |-> << >>, inventory |-> <<ItemSaw>>]}

\* an item whose name column came back null
ItemNameless ==
  [id |-> "e", name |-> NullText, description |-> <<"c", "l", "a", "w", " ", "h", "a", "m", "m", "e", "r">>,
   category |-> NullText, tags |-> << >>, location |-> "Garage"]

NameConstructor == <<"c", "o", "n", "s", "t", "r", "u", "c", "t", "o", "r", " ", "s", "e", "t">>

\* requirements with a field of the wrong type, next to well-formed ones
MalformedRawSet ==
  {Null}
  \cup {[RawDrill EXCEPT !.requiredToolName = name] :
          name \in {NumberValue, NullText, NameConstructor, NameHammerDrill}}
  \cup {[RawDrill EXCEPT !.description = NumberValue],
        [RawDrill EXCEPT !.category = NumberValue],
        [RawDrill EXCEPT !.description = NullText, !.category = NullText],
        RawDrill}

\* values of raw.required: the two booleans, and the field left out
Flags == {"true", "false", "undefined"}

\* requirements whose flags vary, for the calls that are compared
FlagRawSet ==
  RawOf({NameDrill, NameHammerDrill}, {"owned", NoStatus}, {Null}, {Null}, Flags)

\* the lists that differ from a list in the required flags only
reflagged(list) ==
  {[i \in 1 .. Len(list) |-> [list[i] EXCEPT !.required = flags[i]]]
     : flags \in [1 .. Len(list) -> Flags]}

\* requirements whose name repeats a word, next to names that do not
RepeatedRawSet ==
  RawOf({NameDrillTwice, NameDrill, NameHammerDrill}, {"owned", NoStatus},
        {Null}, {Null}, {"true"})

ListsOf(set, n) == UNION {[1 .. m -> set] : m \in 0 .. n}

(* ------------------------- barcodes (gemini.ts) ------------------------ *)
\* The barcode identity resolver of src/src/lib/gemini.ts.  A value of the
\* JSON an item record holds is [type |-> "string", text |-> s], [type |->
\* "number", text |-> String(n)], [type |-> "array", entries |-> <<...>>], or
\* Null for an absent key and for every other type.

\* String.prototype.toUpperCase on one character
toUpperCase(c) ==
  IF \E k \in DOMAIN LowerCaseLetters : LowerCaseLetters[k] = c
  THEN UpperCaseLetters[CHOOSE k \in DOMAIN LowerCaseLetters : LowerCaseLetters[k] = c]
  ELSE c

\* the character class [0-9A-Za-z]
BarcodeChars ==
  Range(DigitChars) \cup Range(LowerCaseLetters) \cup Range(UpperCaseLetters)

BARCODE_ITEM_KEYS == <<"upc", "ean", "gtin", "barcode">>

\* value.replace(/[^0-9A-Za-z]/g, '').trim().toUpperCase()
normalizeBarcodeValue(value) ==
  LET kept(c) == c \in BarcodeChars
      stripped == trim(SelectSeq(value, kept))
  IN  [k \in DOMAIN stripped |-> toUpperCase(stripped[k])]

\* value.replace(/\D/g, '')
normalizeBarcodeDigits(value) ==
  LET isDigit(c) == c \in Range(DigitChars)
  IN  SelectSeq(value, isDigit)

\* the lengths of a UPC-A code and of an EAN-13 code
UpcLength == 12
EanLength == 13

\* mutant: Array.prototype.push, which keeps a value already present
arrayPush(set, value) == Append(set, value)

\* Set.prototype.add on a set kept as the sequence of its insertion order
setAdd(set, value) == IF value \in Range(set) THEN set ELSE Append(set, value)

\* mutant: a 12-digit code is not given its 13-digit form
buildBarcodeVariantsWithoutPrefix(barcode) ==
  LET normalized == normalizeBarcodeValue(barcode)
      digits == normalizeBarcodeDigits(normalized)
      withDigits == setAdd(<<normalized>>, digits)
  IN  IF normalized = << >> THEN << >>
      ELSE IF digits = << >> THEN <<normalized>>
      ELSE IF Len(digits) = EanLength /\ Head(digits) = "0"
           THEN setAdd(withDigits, Tail(digits))
           ELSE withDigits

\* buildBarcodeVariants: Array.from of the Set, in insertion order
buildBarcodeVariants(barcode) ==
  LET normalized == normalizeBarcodeValue(barcode)
      digits == normalizeBarcodeDigits(normalized)
      withDigits == setAdd(<<normalized>>, digits)
      withPrefix == IF Len(digits) = UpcLength
                    THEN setAdd(withDigits, <<"0">> \o digits)
                    ELSE withDigits
  IN  IF normalized = << >> THEN << >>
      ELSE IF digits = << >> THEN <<normalized>>
      ELSE IF Len(digits) = EanLength /\ Head(digits) = "0"
           THEN setAdd(withPrefix, Tail(digits))
           ELSE withPrefix

\* typeof raw === 'string' || typeof raw === 'number'
isScalar(raw) == IF raw = Null THEN FALSE ELSE raw.type \in {"string", "number"}

\* Array.isArray(raw)
isArray(raw) == IF raw = Null THEN FALSE ELSE raw.type = "array"

\* candidates.add(normalizeBarcodeValue(String(raw))) when that is not empty
addCandidate(candidates, raw) ==
  IF isScalar(raw) /\ normalizeBarcodeValue(raw.text) # << >>
  THEN setAdd(candidates, normalizeBarcodeValue(raw.text))
  ELSE candidates

\* for (const entry of raw) { ... }
RECURSIVE addEntries(_, _)
addEntries(candidates, entries) ==
  IF entries = << >> THEN candidates
  ELSE addEntries(addCandidate(candidates, Head(entries)), Tail(entries))

\* for (const key of BARCODE_ITEM_KEYS) { ... }
RECURSIVE collectFromKeys(_, _, _)
collectFromKeys(candidates, item, keys) ==
  IF keys = << >> THEN candidates
  ELSE LET raw == item[Head(keys)]
           withScalar == addCandidate(candidates, raw)
           withEntries == IF isArray(raw)
                          THEN addEntries(withScalar, raw.entries)
                          ELSE withScalar
       IN  collectFromKeys(withEntries, item, Tail(keys))

collectItemBarcodeCandidates(item) == collectFromKeys(<< >>, item, BARCODE_ITEM_KEYS)

\* new Set(expectedVariants.map(normalizeBarcodeDigits).filter(Boolean))
expectedDigitSetOf(expectedVariants) ==
  {normalizeBarcodeDigits(expectedVariants[k]) : k \in DOMAIN expectedVariants}
    \ {<< >>}

\* mutant: only the comparison of the whole candidate with the variants
candidateMatchesExactly(candidate, expectedVariants) ==
  candidate \in Range(expectedVariants)

\* the body of the loop over the candidates: TRUE when it returns true
candidateMatches(candidate, expectedVariants) ==
  LET expectedSet == Range(expectedVariants)
      expectedDigitSet == expectedDigitSetOf(expectedVariants)
      candidateDigits == normalizeBarcodeDigits(candidate)
  IN  IF candidate \in expectedSet THEN TRUE
      ELSE IF candidateDigits = << >> THEN FALSE
      ELSE IF candidateDigits \in expectedDigitSet THEN TRUE
      ELSE IF /\ Len(candidateDigits) = EanLength
              /\ Head(candidateDigits) = "0"
              /\ Tail(candidateDigits) \in expectedDigitSet
           THEN TRUE
      ELSE Len(candidateDigits) = UpcLength
           /\ (<<"0">> \o candidateDigits) \in expectedDigitSet

\* hasStrongBarcodeMatch: the loop returns true at the first candidate that
\* matches and false when none does
hasStrongBarcodeMatch(item, barcode) ==
  LET expectedVariants == buildBarcodeVariants(barcode)
      candidates == collectItemBarcodeCandidates(item)
  IN  IF Len(expectedVariants) = 0 THEN FALSE
      ELSE \E k \in DOMAIN candidates : candidateMatches(candidates[k], expectedVariants)

(* ---------------------------- barcode inputs --------------------------- *)

\* every 12-digit code over two digits
TwelveDigitCodes == [1 .. UpcLength -> {"0", "9"}]

CodeUpc == <<"0", "1", "2", "3", "4", "5", "6", "7", "8", "9", "0", "5">>
CodeEan == <<"0", "0", "1", "2", "3", "4", "5", "6", "7", "8", "9", "0", "5">>
CodeUpcDashed == <<"0", "-", "1", "2", "3", "4", "5", "-", "6", "7", "8", "9", "0", "-", "5">>
CodeShort == <<"1", "2", "3", "4", "5", "6", "7", "8", "9", "0", "5">>
CodeOther == <<"9", "9", "9", "9", "9", "9", "9", "9", "9", "9", "9", "9">>
CodeOtherEan == <<"9", "0", "1", "2", "3", "4", "5", "6", "7", "8", "9", "0", "5">>
CodeAlpha == <<"a", "b", "-", "1", "2">>
CodeAlphaUpper == <<"A", "B", "1", "2">>
CodeAlphaOther == <<"x", "1", "2">>
CodeLetters == <<"a", "b", "c">>
CodeDashes == <<"-", "-">>
CodeMixed == <<"s", "n", " ", "0", "1", "2", "3", "4", "5", "6", "7", "8", "9", "0", "5">>
CodeMixedEan == <<"S", "n", ":", "0", "0", "1", "2", "3", "4", "5", "6", "7", "8", "9", "0", "5">>

\* the inputs of buildBarcodeVariants: a 12-digit code and its 13-digit form,
\* and pairs of other codes
CodePairs ==
  {<<d, <<"0">> \o d>> : d \in TwelveDigitCodes}
  \cup {<<CodeUpcDashed, CodeEan>>, <<CodeAlpha, CodeAlphaUpper>>,
        <<CodeShort, CodeOtherEan>>, <<CodeLetters, CodeDashes>>,
        <<CodeMixed, CodeMixedEan>>}

FilterCodes ==
  {CodeUpc, CodeEan, CodeUpcDashed, CodeShort, CodeOther, CodeOtherEan,
   CodeAlpha, CodeAlphaUpper, CodeAlphaOther, CodeLetters, CodeDashes}

StringValue(text) == [type |-> "string", text |-> text]
NumberOf(text) == [type |-> "number", text |-> text]
ArrayValue(entries) == [type |-> "array", entries |-> entries]

\* an item record without any identifier
NoIdentifiers == [upc |-> Null, ean |-> Null, gtin |-> Null, barcode |-> Null]

\* String(12345678905) and String(999999999999): a number keeps no leading zero
IdentifierValues ==
  {StringValue(code) : code \in FilterCodes}
  \cup {NumberOf(CodeShort), NumberOf(CodeOther)}

\* item records with one scalar identifier under one key, with a list of one
\* or two entries under upc, and with identifiers under two keys
FilterItems ==
  {NoIdentifiers}
  \cup {[NoIdentifiers EXCEPT ![key] = value] :
          key \in Range(BARCODE_ITEM_KEYS), value \in IdentifierValues}
  \cup {[NoIdentifiers EXCEPT !.upc = ArrayValue(<<StringValue(first)>>)] :
          first \in {CodeEan, CodeDashes}}
  \cup {[NoIdentifiers EXCEPT !.upc = ArrayValue(<<StringValue(first), second>>)] :
          first \in {CodeOther, CodeDashes},
          second \in {StringValue(CodeEan), NumberOf(CodeShort), Null}}
  \cup {[NoIdentifiers EXCEPT !.ean = StringValue(first),
                              !.barcode = StringValue(second)] :
          first \in {CodeOther, CodeAlphaOther}, second \in {CodeUpc, CodeAlpha}}

(* --------------------------- barcode lookups --------------------------- *)
\* The lookup phase of analyzeBarcode: lookupBarcodeProduct (the primary
\* source), lookupOpenFactsProduct (the mirrors) and lookupBarcodeViaWebSearch.
\* A text that is undefined or not a string is NullText.

\* what an awaited request can come to
FailureKinds == {"networkFailure", "status", "unparseable"}
Failure(kind) == [kind |-> kind]
Ok(body) == [kind |-> "ok", body |-> body]

\* the exception a rejected await raises in its caller
Thrown == [thrown |-> TRUE]

\* mutant: getJson without its try/catch and its status test
getJsonUncaught(outcome) ==
  IF outcome.kind = "ok" THEN outcome.body ELSE Thrown

\* getJson: null for a rejected or timed-out request, for a status outside
\* 200..299 and for a body that does not parse; else the parsed body
getJson(outcome) ==
  IF outcome.kind = "ok" THEN outcome.body ELSE Null

\* the first occurrence of each element of a list, in order
firstOccurrences(list) ==
  LET isFirst(k) == \A j \in 1 .. k - 1 : list[j] # list[k]
      firsts == {k \in DOMAIN list : isFirst(k)}
      before(k) == Cardinality({j \in firsts : j < k})
  IN  [n \in 1 .. Cardinality(firsts) |->
         list[CHOOSE k \in firsts : before(k) = n - 1]]

\* Array.from(new Set(list)); the quantifier binds the value of the list, so
\* that it is computed once
uniqueOf(list) ==
  CHOOSE unique \in {firstOccurrences(value) : value \in {list}} : TRUE

\* barcodeVariants.filter((variant) => /^\d+$/.test(variant)), made unique
digitVariants(barcodeVariants) ==
  LET allDigits(variant) ==
        variant # << >> /\ \A k \in DOMAIN variant : variant[k] \in Range(DigitChars)
  IN  uniqueOf(SelectSeq(barcodeVariants, allDigits))

PrimaryEndpoint == "api.upcitemdb.com/prod/trial/lookup"
endpoints == <<"world.openbeautyfacts.org/api/v2/product",
               "world.openfoodfacts.org/api/v2/product">>
WebSearchEndpoint == "www.google.com/search"

\* the timeoutMs argument of both lookups, and the slack of the native race
LookupTimeoutMs == 4500
NativeSlackMs == 500

\* the timer withTimeout arms around a getJson request; 0 when there is none
timeoutOf(native, source) ==
  IF source = "web" THEN 0
  ELSE IF native THEN LookupTimeoutMs + NativeSlackMs
  ELSE LookupTimeoutMs

\* typeof value === 'string' ? value : undefined
stringOrUndefined(value) == IF isString(value) THEN value ELSE NullText

\* value || undefined, and the truth of a text
truthy(value) == value \notin {NullText, << >>}
orUndefined(value) == IF truthy(value) THEN value ELSE NullText

\* items.find(candidate => candidate is an object that passes the filter):
\* its position, 0 when there is none
findMatched(items, barcode) ==
  LET passes(k) ==
        IF items[k] = Null THEN FALSE ELSE hasStrongBarcodeMatch(items[k], barcode)
  IN  IF \E k \in DOMAIN items : passes(k)
      THEN CHOOSE k \in DOMAIN items : passes(k) /\ \A j \in 1 .. k - 1 : ~passes(j)
      ELSE 0

\* isHttpUrl: /^https?:\/\//i.test(value.trim()) of a truthy value
isHttpUrl(value) ==
  IF ~truthy(value) THEN FALSE
  ELSE LET lowered == [k \in DOMAIN trim(value) |-> toLowerCase(trim(value)[k])]
           begins(prefix) ==
             /\ Len(lowered) >= Len(prefix)
             /\ SubSeq(lowered, 1, Len(prefix)) = prefix
       IN  begins(<<"h", "t", "t", "p", ":", "/", "/">>) \/ begins(<<"h", "t", "t", "p", "s", ":", "/", "/">>)

\* Array.isArray(item.images) && typeof item.images[0] === 'string'
\*   ? item.images[0] : undefined
firstImageOf(item) ==
  IF item.images = Null THEN NullText
  ELSE IF item.images.type # "array" THEN NullText
  ELSE IF Len(item.images.entries) = 0 THEN NullText
  ELSE stringOrUndefined(item.images.entries[1])

\* Array.isArray(item.offers) && typeof item.offers[0]?.link === 'string'
\*   ? item.offers[0].link : undefined
firstOfferLinkOf(item) ==
  IF item.offers = Null THEN NullText
  ELSE IF item.offers.type # "array" THEN NullText
  ELSE IF Len(item.offers.entries) = 0 THEN NullText
  ELSE stringOrUndefined(item.offers.entries[1].link)

\* the record lookupBarcodeProduct returns for the matched item
primaryResultOf(item) ==
  [title |-> stringOrUndefined(item.title),
   description |-> stringOrUndefined(item.description),
   brand |-> stringOrUndefined(item.brand),
   category |-> stringOrUndefined(item.category),
   imageUrl |-> firstImageOf(item),
   productUrl |-> firstOfferLinkOf(item)]

\* value.split(',')[0]
firstSegment(value) ==
  IF \E k \in DOMAIN value : value[k] = ","
  THEN SubSeq(value, 1, (CHOOSE k \in DOMAIN value :
                           value[k] = "," /\ \A j \in 1 .. k - 1 : value[j] # ",") - 1)
  ELSE value

\* (product.product_name || product.generic_name || '').trim()
mirrorTitle(product) ==
  trim(IF truthy(product.product_name) THEN product.product_name
       ELSE orEmpty(product.generic_name))

\* product.generic_name?.trim()
mirrorDescription(product) ==
  IF product.generic_name = NullText THEN NullText ELSE trim(product.generic_name)

\* product.brands?.split(',')[0]?.trim(), the same for categories
mirrorFirst(value) ==
  IF value = NullText THEN NullText ELSE trim(firstSegment(value))

\* a field that is a truthy non-string has no trim or split method: the
\* TypeError is caught by the try of lookupOpenFactsProduct
mirrorThrows(product) ==
  NumberValue \in {product.product_name, product.generic_name,
                   product.brands, product.categories}

\* !title && !brand && !description && !category
mirrorIsBlank(product) ==
  /\ ~truthy(mirrorTitle(product))
  /\ ~truthy(mirrorFirst(product.brands))
  /\ ~truthy(mirrorDescription(product))
  /\ ~truthy(mirrorFirst(product.categories))

\* product.image_front_url || product.image_url
mirrorImageUrl(product) ==
  IF truthy(product.image_front_url) THEN product.image_front_url ELSE product.image_url

\* product.product_url || product.url
mirrorProductUrl(product) ==
  IF truthy(product.product_url) THEN product.product_url ELSE product.url

\* isHttpUrl(value) ? value : undefined
httpUrlOrUndefined(value) == IF isHttpUrl(value) THEN value ELSE NullText

\* the record lookupOpenFactsProduct returns for the product
mirrorResultOf(product) ==
  [title |-> orUndefined(mirrorTitle(product)),
   description |-> orUndefined(mirrorDescription(product)),
   brand |-> orUndefined(mirrorFirst(product.brands)),
   category |-> orUndefined(mirrorFirst(product.categories)),
   imageUrl |-> httpUrlOrUndefined(mirrorImageUrl(product)),
   productUrl |-> httpUrlOrUndefined(mirrorProductUrl(product))]

\* mutant: any record a lookup returned counts as a signal
hasLookupSignalOfAnyRecord(record) == record # Null

\* Boolean(lookedUp?.title || lookedUp?.brand || lookedUp?.description ||
\*         lookedUp?.category)
hasLookupSignal(record) ==
  IF record = Null THEN FALSE
  ELSE \/ truthy(record.title)
       \/ truthy(record.brand)
       \/ truthy(record.description)
       \/ truthy(record.category)

\* mutant: both lookups are awaited before their results are combined
triesMirrorsAlways(primaryResult) == TRUE

\* (await lookupBarcodeProduct(barcode)) || (await lookupOpenFactsProduct(barcode))
triesMirrors(primaryResult) == primaryResult = Null

\* mutant: the loop asks again for a code that gave nothing
retryCode(position) == position

\* the step of for (const code of ...) to the next code
nextCode(position) == position + 1

(* ---------------------------- lookup inputs ---------------------------- *)

ResolverCodes == {CodeUpc, CodeEan, CodeAlpha, CodeLetters, CodeDashes}

NoDetails ==
  [title |-> NullText, description |-> NullText, brand |-> NullText,
   category |-> NullText, images |-> Null, offers |-> Null]

\* items of the primary source: one for the code 0012345678905 with a title,
\* a brand, an image and an offer, one for the same code with an empty title
\* and nothing else, and one for another product
ItemFull ==
  [NoIdentifiers EXCEPT !.ean = StringValue(CodeEan)]
    @@ [NoDetails EXCEPT !.title = <<"D", "r", "i", "l", "l">>, !.brand = <<"A", "c", "m", "e">>,
                         !.images = ArrayValue(<<<<"h", "t", "t", "p", ":", "/", "/", "i", "/", "d">>>>),
                         !.offers = ArrayValue(<<[link |-> <<"h", "t", "t", "p", ":", "/", "/", "s", "/", "d">>]>>)]
ItemBare ==
  [NoIdentifiers EXCEPT !.upc = StringValue(CodeUpc)]
    @@ [NoDetails EXCEPT !.title = << >>, !.brand = NumberValue]
ItemUnrelated ==
  [NoIdentifiers EXCEPT !.upc = StringValue(CodeOther)]
    @@ [NoDetails EXCEPT !.title = <<"S", "a", "w">>]
ItemTwelve ==
  [NoIdentifiers EXCEPT !.barcode = ArrayValue(<<StringValue(<<"1", "2">>)>>)]
    @@ [NoDetails EXCEPT !.category = <<"T", "o", "o", "l", "s">>]

\* bodies of the primary source: { items: [...] }, an object without items
PrimaryBodies ==
  {[items |-> << >>],
   [items |-> <<Null, ItemUnrelated>>],
   [items |-> <<ItemUnrelated, ItemFull>>],
   [items |-> <<ItemBare, ItemFull>>],
   [items |-> <<ItemTwelve>>]}

NoProductFields ==
  [code |-> NullText, product_name |-> NullText, generic_name |-> NullText,
   brands |-> NullText, categories |-> NullText, image_front_url |-> NullText,
   image_url |-> NullText, product_url |-> NullText, url |-> NullText]

\* products of a mirror: of another code, without a name, with a numeric name
ProductOther ==
  NoIdentifiers @@ [NoProductFields EXCEPT !.code = CodeOther,
                                           !.product_name = <<" ", "S", "a", "w", " ">>]
ProductBranded ==
  NoIdentifiers @@ [NoProductFields EXCEPT !.code = CodeEan,
                                           !.generic_name = << >>,
                                           !.brands = <<"A", "c", "m", "e", ",", " ", "B", "e", "s", "t">>,
                                           !.image_url = <<" ", "H", "T", "T", "P", "S", ":", "/", "/", "i", "/", "a">>,
                                           !.product_url = <<"f", "t", "p", ":", "/", "/", "s", "/", "a">>]
ProductBlank ==
  NoIdentifiers @@ [NoProductFields EXCEPT !.code = CodeEan,
                                           !.product_name = <<" ", " ">>,
                                           !.categories = <<",">>]
ProductMalformed ==
  NoIdentifiers @@ [NoProductFields EXCEPT !.product_name = NumberValue]

\* bodies of a mirror: { product: ... }, an object without product
MirrorBodies ==
  {[product |-> Null], [product |-> ProductOther], [product |-> ProductBranded],
   [product |-> ProductBlank], [product |-> ProductMalformed]}

\* response.data of the web search: a page, an empty page
WebPages == {<<"<", "b", ">", "D", "r", "i", "l", "l", "<", "/", "b", ">">>, << >>}

\* the object of an answer of the remote model, of which analyzeBarcode reads
\* name, description, category, specs, productUrl and imageUrl here; a field
\* left out is undefined
NoAnswerFields ==
  [name |-> NullText, description |-> NullText, category |-> NullText,
   specs |-> Null, productUrl |-> NullText, imageUrl |-> NullText]

NoSpecs == [Barcode |-> NullText, Brand |-> NullText]

\* a text that holds no JSON value
NotJson == [notJson |-> TRUE]

\* safeParseJSON(text) without a fallback: the value JSON.parse gives for the
\* text, or for the outermost {...} or [...] in it, else an Error is thrown.
\* A text of the remote model is given by the value it parses to.
safeParseJSON(answer) == IF answer = NotJson THEN Thrown ELSE answer

\* validateToolAnalysis(raw): a value that is no object counts as {}
validateToolAnalysis(raw) ==
  LET obj == IF raw = Null THEN NoAnswerFields ELSE raw
  IN  [name |-> IF isString(obj.name) THEN obj.name ELSE <<"U", "n", "k", "n", "o", "w", "n", " ", "I", "t", "e", "m">>,
       description |-> IF isString(obj.description) THEN obj.description ELSE << >>,
       category |-> IF isString(obj.category) THEN obj.category ELSE << >>,
       specs |-> obj.specs,
       productUrl |-> stringOrUndefined(obj.productUrl),
       imageUrl |-> stringOrUndefined(obj.imageUrl)]

\* mutant: the barcode is not put into the specs
nextSpecsAsAnswered(answered, barcode, record) ==
  IF answered.specs = Null THEN NoSpecs ELSE answered.specs

\* const nextSpecs = { ...(parsed.specs || {}) };
\* if (!nextSpecs.Barcode) nextSpecs.Barcode = barcode;
\* if (lookedUp?.brand && !nextSpecs.Brand) nextSpecs.Brand = lookedUp.brand;
nextSpecs(answered, barcode, record) ==
  LET spread == IF answered.specs = Null THEN NoSpecs ELSE answered.specs
      withBarcode ==
        IF truthy(spread.Barcode) THEN spread ELSE [spread EXCEPT !.Barcode = barcode]
  IN  IF record = Null THEN withBarcode
      ELSE IF truthy(record.brand) /\ ~truthy(withBarcode.Brand)
      THEN [withBarcode EXCEPT !.Brand = record.brand]
      ELSE withBarcode

\* encodeURIComponent of a text of letters, digits, '-', '.' and spaces
RECURSIVE encodeURIComponent(_)
encodeURIComponent(s) ==
  IF s = << >> THEN << >>
  ELSE (IF Head(s) = " " THEN <<"%", "2", "0">> ELSE <<Head(s)>>) \o encodeURIComponent(Tail(s))

\* enrichedFallbackProductSearch
productSearchUrl(name, barcode) ==
  <<"h", "t", "t", "p", "s", ":", "/", "/", "w", "w", "w", ".", "g", "o", "o", "g", "l", "e", ".", "c", "o", "m", "/", "s", "e", "a", "r", "c", "h", "?", "q", "=">>
    \o encodeURIComponent(orEmpty(name) \o <<" ">> \o barcode \o <<" ", "p", "r", "o", "d", "u", "c", "t">>)

\* lookedUp?.field?.trim() || fallback
trimmedOr(record, field, fallback) ==
  IF record = Null THEN fallback
  ELSE IF record[field] = NullText THEN fallback
  ELSE IF trim(record[field]) = << >> THEN fallback
  ELSE trim(record[field])

\* lookedUp?.field
fieldOf(record, field) == IF record = Null THEN NullText ELSE record[field]

\* the object analyzeBarcode returns
returnedAnalysis(answered, barcode, record) ==
  [name |-> trimmedOr(record, "title", answered.name),
   description |-> trimmedOr(record, "description", answered.description),
   category |-> trimmedOr(record, "category", answered.category),
   productUrl |->
     IF isHttpUrl(answered.productUrl) THEN answered.productUrl
     ELSE IF isHttpUrl(fieldOf(record, "productUrl")) THEN record.productUrl
     ELSE productSearchUrl(answered.name, barcode),
   imageUrl |->
     IF isHttpUrl(answered.imageUrl) THEN answered.imageUrl
     ELSE IF isHttpUrl(fieldOf(record, "imageUrl")) THEN record.imageUrl
     ELSE NullText,
   specs |-> nextSpecs(answered, barcode, record)]

\* answers of the remote model: an object with every field and the barcode
\* in its specs, one whose name is a number and whose links are no http
\* links, one with specs that name no barcode, the value 42, and a text
\* that is no JSON
AnswerFull ==
  [NoAnswerFields EXCEPT !.name = <<"H", "a", "m", "m", "e", "r">>, !.description = <<"A", " ", "h", "a", "m", "m", "e", "r", ".">>,
                         !.category = <<"H", "a", "n", "d", " ", "T", "o", "o", "l", "s">>,
                         !.specs = [Barcode |-> <<"9", "9">>, Brand |-> <<"B", "e", "s", "t">>],
                         !.productUrl = <<"h", "t", "t", "p", "s", ":", "/", "/", "s", "/", "h">>,
                         !.imageUrl = <<"h", "t", "t", "p", ":", "/", "/", "i", "/", "h">>]
AnswerOdd ==
  [NoAnswerFields EXCEPT !.name = NumberValue, !.category = << >>,
                         !.specs = [Barcode |-> << >>, Brand |-> NullText],
                         !.productUrl = <<"f", "t", "p", ":", "/", "/", "s", "/", "h">>,
                         !.imageUrl = NumberValue]
AnswerModel ==
  [NoAnswerFields EXCEPT !.name = <<"S", "a", "w">>,
                         !.specs = [Barcode |-> NumberValue, Brand |-> << >>]]
AiAnswers == {AnswerFull, AnswerOdd, AnswerModel, Null, NotJson}

(* ----------------------------- query cache ----------------------------- *)
\* src/src/lib/queryCache.ts, whose invalidateCache scans the keys, and
\* src/unnamed/part_006, the same module with an index from prefix to keys.

\* const DEFAULT_STALE_MS = 30_000
DEFAULT_STALE_MS == 30000

\* String.prototype.startsWith
startsWith(text, prefix) ==
  /\ Len(prefix) <= Len(text)
  /\ SubSeq(text, 1, Len(prefix)) = prefix

\* String.prototype.indexOf for one character: 0-based, -1 when absent
indexOf(text, char) ==
  IF \E k \in DOMAIN text : text[k] = char
  THEN (CHOOSE k \in DOMAIN text :
          text[k] = char /\ \A h \in 1 .. (k - 1) : text[h] # char) - 1
  ELSE -1

\* colonIdx !== -1 ? key.slice(0, colonIdx + 1) : key
extractPrefix(key) ==
  LET colonIdx == indexOf(key, ":")
  IN  IF colonIdx # -1 THEN SubSeq(key, 1, colonIdx + 1) ELSE key

\* Map.prototype.delete
mapDelete(map, key) ==
  LET others(entry) == entry.key # key
  IN  SelectSeq(map, others)

\* the keys of a Map, as a set
mapKeys(map) == {map[k].key : k \in DOMAIN map}

\* registerKeyInPrefixIndex: the Set of a prefix is created on its first key
registerKeyInPrefixIndex(index, key) ==
  LET prefix == extractPrefix(key)
      created == IF mapHas(index, prefix) THEN index ELSE mapSet(index, prefix, {})
  IN  mapSet(created, prefix, mapGet(created, prefix) \cup {key})

\* mutant: the Set of a prefix stays in the index when its last key leaves
removeKeyLeavingEmptySet(index, key) ==
  LET prefix == extractPrefix(key)
  IN  IF mapHas(index, prefix)
      THEN mapSet(index, prefix, mapGet(index, prefix) \ {key})
      ELSE index

\* removeKeyFromPrefixIndex: a Set left empty is deleted from the index
removeKeyFromPrefixIndex(index, key) ==
  LET prefix == extractPrefix(key)
  IN  IF mapHas(index, prefix)
      THEN IF mapGet(index, prefix) \ {key} = {}
           THEN mapDelete(index, prefix)
           ELSE mapSet(index, prefix, mapGet(index, prefix) \ {key})
      ELSE index

\* getCached(key) with the default staleMs, at time `time`: "null" or the data
getCached(map, key, time) ==
  IF ~mapHas(map, key) THEN "null"
  ELSE IF time - mapGet(map, key).timestamp > DEFAULT_STALE_MS THEN "null"
  ELSE mapGet(map, key).data

\* cache.set(key, { data, timestamp: Date.now() })
cacheSet(map, key, data, time) == mapSet(map, key, [data |-> data, timestamp |-> time])

\* invalidateCache of queryCache.ts: the key when it is stored, otherwise every
\* key that starts with the argument
invalidateByScan(map, keyOrPrefix) ==
  LET kept(entry) == ~startsWith(entry.key, keyOrPrefix)
  IN  IF mapHas(map, keyOrPrefix) THEN mapDelete(map, keyOrPrefix)
      ELSE SelectSeq(map, kept)

\* invalidateCache of part_006, its effect on the cache: the key when it is
\* stored, otherwise the keys the index files under the argument
invalidateByIndex(map, index, keyOrPrefix) ==
  LET kept(entry) == entry.key \notin mapGet(index, keyOrPrefix)
  IN  IF mapHas(map, keyOrPrefix) THEN mapDelete(map, keyOrPrefix)
      ELSE IF mapHas(index, keyOrPrefix) THEN SelectSeq(map, kept)
      ELSE map

\* invalidateCache of part_006, its effect on the index
indexAfterInvalidate(map, index, keyOrPrefix) ==
  IF mapHas(map, keyOrPrefix) THEN removeKeyFromPrefixIndex(index, keyOrPrefix)
  ELSE mapDelete(index, keyOrPrefix)

(* ----------------------------- cache inputs ---------------------------- *)

\* the number of calls made to the cache modules
MaxCacheOps == 4

KeyFirst == <<"a", ":", "1">>
KeyLonger == <<"a", ":", "1", "2">>
KeyPlain == <<"b">>
PrefixColon == <<"a", ":">>
PrefixBare == <<"a">>

\* the keys the callers store under, and the arguments of invalidateCache:
\* the keys, their prefix up to the colon, a shorter prefix, the empty string
CacheKeys == {KeyFirst, KeyLonger, KeyPlain}
InvalidateArguments == CacheKeys \cup {PrefixColon, PrefixBare, << >>}
CacheData == {"rows", "stats"}

(* ------------------------------ AI client ------------------------------ *)
\* generateWithConfiguredProvider of src/src/lib/aiClient.ts and the model
\* settings of src/unnamed/part_005 (aiConfig).

\* DEFAULT_MODELS
DEFAULT_MODELS(provider) ==
  CASE provider = "gemini" ->
         <<<<"g", "e", "m", "i", "n", "i", "-", "3", "-", "f", "l", "a", "s", "h", "-", "p", "r", "e", "v", "i", "e", "w">>, <<"g", "e", "m", "i", "n", "i", "-", "2", ".", "5", "-", "f", "l", "a", "s", "h">>, <<"g", "e", "m", "i", "n", "i", "-", "3", ".", "1", "-", "p", "r", "o">>,
           <<"g", "e", "m", "i", "n", "i", "-", "3", "-", "p", "r", "o", "-", "p", "r", "e", "v", "i", "e", "w">>, <<"g", "e", "m", "i", "n", "i", "-", "2", ".", "5", "-", "p", "r", "o">>>>
    [] provider = "openai" -> <<<<"g", "p", "t", "-", "4", ".", "1", "-", "m", "i", "n", "i">>, <<"g", "p", "t", "-", "4", "o", "-", "m", "i", "n", "i">>>>
    [] provider = "anthropic" ->
         <<<<"c", "l", "a", "u", "d", "e", "-", "3", "-", "5", "-", "s", "o", "n", "n", "e", "t", "-", "l", "a", "t", "e", "s", "t">>, <<"c", "l", "a", "u", "d", "e", "-", "3", "-", "5", "-", "h", "a", "i", "k", "u", "-", "l", "a", "t", "e", "s", "t">>>>

\* String.prototype.split(','): the pieces between the commas, empty ones kept
RECURSIVE splitAtCommas(_)
splitAtCommas(s) ==
  IF \E k \in DOMAIN s : s[k] = ","
  THEN LET k == CHOOSE j \in DOMAIN s : s[j] = "," /\ \A h \in 1 .. (j - 1) : s[h] # ","
       IN  <<SubSeq(s, 1, k - 1)>> \o splitAtCommas(SubSeq(s, k + 1, Len(s)))
  ELSE <<s>>

\* getModelCandidates: the stored list, or the defaults when nothing is stored
\* or nothing is left of it
getModelCandidates(provider, raw) ==
  LET pieces == splitAtCommas(raw)
      parsed == SelectSeq([k \in DOMAIN pieces |-> trim(pieces[k])], IsNonEmpty)
  IN  IF raw = NullText \/ raw = << >> THEN DEFAULT_MODELS(provider)
      ELSE IF Len(parsed) > 0 THEN parsed
      ELSE DEFAULT_MODELS(provider)

\* input.modelCandidates?.filter(Boolean) ?? getModelCandidates(provider)
modelsOf(modelCandidates, provider, raw) ==
  IF modelCandidates = Null THEN getModelCandidates(provider, raw)
  ELSE SelectSeq(modelCandidates, IsNonEmpty)

\* isRateOrQuotaIssue
isRateOrQuotaIssue(message) ==
  LET lower == [k \in DOMAIN message |-> toLowerCase(message[k])]
  IN  \/ includes(lower, <<"4", "2", "9">>)
      \/ includes(lower, <<"q", "u", "o", "t", "a">>)
      \/ includes(lower, <<"r", "a", "t", "e", " ", "l", "i", "m", "i", "t">>)
      \/ includes(lower, <<"c", "a", "p", "a", "c", "i", "t", "y">>)

\* mutant: the loop stays on the model that failed
sameModel(position) == position

\* for (const model of models): the position after the one just tried
nextModel(position) == position + 1

(* ---------------------------- AI client inputs ------------------------- *)

AIProviders == {"gemini", "openai", "anthropic"}

\* localStorage.getItem('AI_MODELS_' + provider): nothing, a list of two
\* with blanks around the names and an empty piece, commas only
StoredModelLists == {NullText, <<" ", "f", "a", "s", "t", " ", ",", " ", ",", "s", "l", "o", "w">>, <<",", " ", ",">>}

\* input.modelCandidates: left out, one model with an empty name next to it, none
InputModelLists == {Null, <<<< >>, <<"p", "r", "o", "b", "e">>>>, << >>}

\* the API key as stored: none, blanks only, a key
StoredApiKeys == {<< >>, <<" ", " ">>, <<" ", "s", "k", "-", "1", " ">>}

\* the messages of the errors callProviderModel throws
ErrorMessages == {<<"G", "e", "m", "i", "n", "i", " ", "A", "P", "I", " ", "E", "r", "r", "o", "r", " ", "4", "2", "9", ":", " ", "s", "l", "o", "w", " ", "d", "o", "w", "n">>, <<"Q", "u", "o", "t", "a", " ", "e", "x", "c", "e", "e", "d", "e", "d">>,
                  <<"F", "a", "i", "l", "e", "d", " ", "t", "o", " ", "f", "e", "t", "c", "h">>}

\* the texts callProviderModel returns
ModelTexts == {<<"{", "}">>, << >>}

(* ---------------------------- smart reminders -------------------------- *)
\* syncSmartReminders and triggerSmartReminderSync of
\* src/src/lib/notifications.ts.

\* the keys of NOTIFICATION_IDS
ReminderCategories == {"maintenance", "loans", "stock"}

\* the field of ReminderCounts a category is scheduled from
countOf(counts, category) ==
  CASE category = "maintenance" -> counts.maintenanceDue
    [] category = "loans" -> counts.overdueLoans
    [] category = "stock" -> counts.lowStockItems

\* the notifications array built from counts: for each category, the count
\* its body states, 0 for a category that gets no notification
notificationsOf(counts) ==
  [category \in ReminderCategories |->
     IF countOf(counts, category) > 0 THEN countOf(counts, category) ELSE 0]

\* LocalNotifications.cancel of the three ids
cancelAll(pendingNow) == [category \in ReminderCategories |-> 0]

\* LocalNotifications.schedule: a notification replaces the pending one of
\* its id
scheduleOver(pendingNow, notifications) ==
  [category \in ReminderCategories |->
     IF notifications[category] > 0 THEN notifications[category]
     ELSE pendingNow[category]]

NoNotifications == [category \in ReminderCategories |-> 0]

(* ------------------------- smart reminder inputs ----------------------- *)

\* the calls of triggerSmartReminderSync that may overlap
MaxSyncs == 2

Syncs == 1 .. MaxSyncs

\* what the three queries of getReminderCounts count at a given time
ReminderData ==
  {[maintenanceDue |-> 0, overdueLoans |-> 0, lowStockItems |-> 0],
   [maintenanceDue |-> 1, overdueLoans |-> 0, lowStockItems |-> 0],
   [maintenanceDue |-> 2, overdueLoans |-> 1, lowStockItems |-> 1]}

(* --------------------------------- state ------------------------------- *)

VARIABLES
  rawMatches,     \* argument of the running call
  inventory,      \* argument of the running call
  pc,             \* "start", "map", "dedup", "done" or "threw"
  inventoryById,  \* local of normalizeToolMatches
  index,          \* position of the map callback, then of the dedup loop
  scanned,        \* candidates the loop of findBestInventoryMatch has scored
  best,           \* local of findBestInventoryMatch
  scores,         \* the value of `score` for each candidate scored so far
  normalized,     \* local of normalizeToolMatches
  bestMatches,    \* the bestMatch local of each callback that has run
  dedup,          \* local of normalizeToolMatches
  result,         \* what the last completed call returned
  calls,          \* calls started so far
  history,        \* arguments and result of every completed call
  codes,          \* the barcodes buildBarcodeVariants is called with, in turn
  expansions,     \* what buildBarcodeVariants returned for the codes so far
  expectedBarcode,  \* argument of hasStrongBarcodeMatch
  candidateItem,  \* argument of hasStrongBarcodeMatch
  filterResult,   \* << >>, then the one value hasStrongBarcodeMatch returned
  barcodeInput,   \* the barcode argument of analyzeBarcode
  isNativePlatform,  \* Capacitor.isNativePlatform()
  apiKey,         \* getApiKey(): "" when none is configured
  rpc,            \* where analyzeBarcode is: "start", "primary", "mirror",
                  \* "lookedUp", "web", "ai", "returned", "threw"; "idle" when
                  \* not called
  loopCodes,      \* queryVariants, then uniqueCodes: the codes of the running loop
  codeIndex,      \* position of for (const code of ...)
  endpointIndex,  \* position of for (const endpoint of endpoints)
  pending,        \* the request the running await waits for, or Null
  requests,       \* every request issued so far, in order
  lastOutcome,    \* how the last awaited request ended
  lookedUp,       \* local of analyzeBarcode
  accepted,       \* the source and the candidate lookedUp was built from
  webSearchContext,  \* local of analyzeBarcode: "null" or "text"
  aiText,         \* local `text` of analyzeBarcode: the answer of the remote
                  \* model, Thrown when the call failed, Null before
  parsed,         \* local of analyzeBarcode, Null before it is assigned
  analysis,       \* the object analyzeBarcode returned, Null before
  cache,          \* the Map of src/src/lib/queryCache.ts
  indexedCache,   \* the Map `cache` of src/unnamed/part_006
  prefixIndex,    \* the Map `prefixIndex` of src/unnamed/part_006
  now,            \* Date.now(), in milliseconds since the modules were loaded
  cacheLog,       \* the names of the calls made to the cache modules so far
  provider,       \* getActiveAIProvider()
  storedApiKey,   \* localStorage.getItem of the provider's API key
  storedModels,   \* localStorage.getItem('AI_MODELS_' + provider)
  modelCandidates,  \* input.modelCandidates
  gpc,            \* where generateWithConfiguredProvider is: "start", "loop",
                  \* "calling", "returned", "threw"; "idle" when not called
  models,         \* local of generateWithConfiguredProvider
  modelIndex,     \* position of for (const model of models)
  attempts,       \* the calls of callProviderModel so far, with how each ended
  sawQuotaOrRateError,  \* local of generateWithConfiguredProvider
  lastError,      \* local of generateWithConfiguredProvider
  generated,      \* what the call returned, or the message it threw
  reminderPlatform,  \* "native" or "web": Capacitor.isNativePlatform()
  remindersEnabled,  \* isSmartRemindersEnabled()
  permissionGranted,  \* what hasGrantedPermission resolves to
  signedIn,       \* whether supabase.auth.getUser() gives a user
  reminderData,   \* what the queries of getReminderCounts count now
  syncPc,         \* where each call of syncSmartReminders is
  syncCounts,     \* the counts local of each call
  pendingNotifications,  \* the count in the body of each pending notification
  lastSync,       \* SMART_REMINDERS_LAST_SYNC: "null" or the call that wrote it
  changedSinceLastStart  \* whether the data changed after the last call started

vars ==
  <<rawMatches, inventory, pc, inventoryById, index, scanned, best, scores,
    normalized, bestMatches, dedup, result, calls, history,
    codes, expansions, expectedBarcode, candidateItem, filterResult,
    barcodeInput, isNativePlatform, apiKey, rpc, loopCodes, codeIndex,
    endpointIndex, pending, requests, lastOutcome, lookedUp, accepted,
    webSearchContext, aiText, parsed, analysis,
    cache, indexedCache, prefixIndex, now, cacheLog,
    provider, storedApiKey, storedModels, modelCandidates, gpc, models,
    modelIndex, attempts, sawQuotaOrRateError, lastError, generated,
    reminderPlatform, remindersEnabled, permissionGranted, signedIn,
    reminderData, syncPc, syncCounts, pendingNotifications, lastSync,
    changedSinceLastStart>>

\* the arguments and the environment of analyzeBarcode
resolverInputs == <<barcodeInput, isNativePlatform, apiKey>>

\* the state of analyzeBarcode
resolverState ==
  <<barcodeInput, isNativePlatform, apiKey, rpc, loopCodes, codeIndex,
    endpointIndex, pending, requests, lastOutcome, lookedUp, accepted,
    webSearchContext, aiText, parsed, analysis>>

\* the locals of analyzeBarcode its lookups assign
lookupLocals ==
  <<loopCodes, codeIndex, endpointIndex, pending, requests, lastOutcome,
    lookedUp, accepted, webSearchContext>>

\* the locals of analyzeBarcode assigned from the AI call on
answerLocals == <<aiText, parsed, analysis>>

\* the state of the two barcode functions when called on their own
functionState == <<codes, expansions, expectedBarcode, candidateItem, filterResult>>

\* the state of the two cache modules and the clock they read
cacheState == <<cache, indexedCache, prefixIndex, now, cacheLog>>

\* the arguments and the settings generateWithConfiguredProvider reads
clientInputs == <<provider, storedApiKey, storedModels, modelCandidates>>

\* the state of generateWithConfiguredProvider
clientState ==
  <<provider, storedApiKey, storedModels, modelCandidates, gpc, models,
    modelIndex, attempts, sawQuotaOrRateError, lastError, generated>>

\* the locals of generateWithConfiguredProvider before its first statement
ClientLocalsInit ==
  /\ models = << >>
  /\ modelIndex = 0
  /\ attempts = << >>
  /\ sawQuotaOrRateError = FALSE
  /\ lastError = Null
  /\ generated = Null

\* generateWithConfiguredProvider is not called
ClientIdle ==
  /\ provider = "gemini"
  /\ storedApiKey = << >>
  /\ storedModels = NullText
  /\ modelCandidates = Null
  /\ gpc = "idle"
  /\ ClientLocalsInit

\* the device and the account the reminders run on
reminderInputs == <<reminderPlatform, remindersEnabled, permissionGranted, signedIn>>

\* the state of the reminders: the calls of syncSmartReminders, the data they
\* read and the notifications the device holds
reminderState ==
  <<reminderPlatform, remindersEnabled, permissionGranted, signedIn,
    reminderData, syncPc, syncCounts, pendingNotifications, lastSync,
    changedSinceLastStart>>

\* no call of syncSmartReminders was made and nothing is scheduled
RemindersStart ==
  /\ syncPc = [s \in Syncs |-> "idle"]
  /\ syncCounts = [s \in Syncs |-> Null]
  /\ pendingNotifications = NoNotifications
  /\ lastSync = "null"
  /\ changedSinceLastStart = FALSE

RemindersIdle ==
  /\ reminderPlatform = "web"
  /\ remindersEnabled = TRUE
  /\ permissionGranted = TRUE
  /\ signedIn = TRUE
  /\ reminderData = [maintenanceDue |-> 0, overdueLoans |-> 0, lowStockItems |-> 0]
  /\ RemindersStart

\* the modules of src/src/lib that the matcher and the barcode functions do
\* not call
libraryState == <<cacheState, clientState, reminderState>>

\* both cache modules as loaded: empty maps
CacheIdle ==
  /\ cache = newMap
  /\ indexedCache = newMap
  /\ prefixIndex = newMap
  /\ now = 0
  /\ cacheLog = << >>

LibraryIdle == CacheIdle /\ ClientIdle /\ RemindersIdle

\* the state of the barcode functions, which the matcher never touches
outsideMatcher == <<functionState, resolverState, libraryState>>

\* the state of the matcher, which the barcode functions never touch
matcherState ==
  <<rawMatches, inventory, pc, inventoryById, index, scanned, best, scores,
    normalized, bestMatches, dedup, result, calls, history>>

\* no call of buildBarcodeVariants is under way
VariantsIdle ==
  /\ codes = << >>
  /\ expansions = << >>

\* no call of hasStrongBarcodeMatch is under way
FilterIdle ==
  /\ expectedBarcode = << >>
  /\ candidateItem = Null
  /\ filterResult = << >>

\* the locals of analyzeBarcode before its first statement
ResolverLocalsInit ==
  /\ loopCodes = << >>
  /\ codeIndex = 0
  /\ endpointIndex = 0
  /\ pending = Null
  /\ requests = << >>
  /\ lastOutcome = "none"
  /\ lookedUp = Null
  /\ accepted = Null
  /\ webSearchContext = "null"
  /\ aiText = Null
  /\ parsed = Null
  /\ analysis = Null

\* analyzeBarcode is not called
ResolverIdle ==
  /\ barcodeInput = << >>
  /\ isNativePlatform = FALSE
  /\ apiKey = ""
  /\ rpc = "idle"
  /\ ResolverLocalsInit

locals == <<inventoryById, index, scanned, best, scores, normalized, bestMatches, dedup>>

InitLocals ==
  /\ pc = "start"
  /\ inventoryById = << >>
  /\ index = 0
  /\ scanned = 0
  /\ best = Null
  /\ scores = << >>
  /\ normalized = << >>
  /\ bestMatches = << >>
  /\ dedup = << >>
  /\ result = << >>
  /\ calls = 1
  /\ history = << >>
  /\ VariantsIdle
  /\ FilterIdle
  /\ ResolverIdle
  /\ LibraryIdle

\* one call with at most one requirement, every combination of its fields
Init ==
  /\ rawMatches \in ListsOf(RawSet, 1)
  /\ inventory \in InventoriesOf(ItemPool, MaxInv)
  /\ InitLocals

\* one call with several requirements
InitDedup ==
  /\ rawMatches \in ListsOf(DedupRawSet, MaxRaw)
  /\ inventory \in InventoriesOf({ItemSaw, ItemMallet}, MaxInv)
  /\ InitLocals

\* one call whose arguments may be malformed
InitMalformed ==
  /\ rawMatches \in ListsOf(MalformedRawSet, MaxRaw)
  /\ inventory \in InventoriesOf({ItemNameless, ItemMallet}, MaxInv)
  /\ InitLocals

\* the first of two calls that differ in the required flags only
InitFlags ==
  /\ rawMatches \in ListsOf(FlagRawSet, MaxRaw)
  /\ inventory \in InventoriesOf({ItemDrill, ItemMallet}, MaxInv)
  /\ InitLocals

\* one call with at most one requirement, whose name may repeat a word
InitRepeated ==
  /\ rawMatches \in ListsOf(RepeatedRawSet, 1)
  /\ inventory \in InventoriesOf(ItemPool, MaxInv)
  /\ InitLocals

\* the first of several calls
InitCalls ==
  /\ \E input \in CallInputs :
       /\ rawMatches = input.rawMatches
       /\ inventory = input.inventory
  /\ InitLocals

(* -------------------------------- actions ------------------------------ *)

completed == [rawMatches |-> rawMatches, inventory |-> inventory, result |-> result']

\* if (!rawMatches?.length) return []
ReturnEmpty ==
  /\ pc = "start"
  /\ Len(rawMatches) = 0
  /\ result' = << >>
  /\ pc' = "done"
  /\ history' = Append(history, completed)
  /\ UNCHANGED <<rawMatches, inventory, calls>>
  /\ UNCHANGED locals
  /\ UNCHANGED outsideMatcher

\* const inventoryById = new Map(...); rawMatches.map starts on a new array
BuildIndex ==
  /\ pc = "start"
  /\ Len(rawMatches) > 0
  /\ inventoryById' = mapOfItems(newMap, inventory)
  /\ normalized' = << >>
  /\ bestMatches' = << >>
  /\ index' = 1
  /\ scanned' = 0
  /\ best' = Null
  /\ scores' = << >>
  /\ pc' = "map"
  /\ UNCHANGED <<rawMatches, inventory, dedup, result, calls, history>>
  /\ UNCHANGED outsideMatcher

\* one iteration of the loop of findBestInventoryMatch
ScoreCandidate ==
  /\ pc = "map"
  /\ index <= Len(rawMatches)
  /\ ~callbackThrows(rawMatches[index])
  /\ requiredToolNameOf(rawMatches[index]) # << >>
  /\ scanned < Len(inventory)
  /\ ~scoreThrows(requiredToolNameOf(rawMatches[index]), inventory[scanned + 1])
  /\ LET candidate == inventory[scanned + 1]
         score == scoreOf(requiredToolNameOf(rawMatches[index]), candidate)
     IN  /\ scores' = Append(scores, score)
         /\ best' = keepBest(best, candidate, score)
  /\ scanned' = scanned + 1
  /\ UNCHANGED <<rawMatches, inventory, pc, inventoryById, index, normalized,
                 bestMatches, dedup, result, calls, history>>
  /\ UNCHANGED outsideMatcher

\* the rest of the map callback for rawMatches[index]: findBestInventoryMatch
\* has returned best, or was not called for an empty name
MapRaw ==
  /\ pc = "map"
  /\ index <= Len(rawMatches)
  /\ ~callbackThrows(rawMatches[index])
  /\ \/ requiredToolNameOf(rawMatches[index]) = << >>
     \/ scanned = Len(inventory)
  /\ normalized' = Append(normalized, toolMatchOf(rawMatches[index], inventoryById, best))
  /\ bestMatches' = Append(bestMatches, best)
  /\ index' = index + 1
  /\ scanned' = 0
  /\ best' = Null
  /\ scores' = << >>
  /\ UNCHANGED <<rawMatches, inventory, pc, inventoryById, dedup, result, calls, history>>
  /\ UNCHANGED outsideMatcher

\* the map callback raises before it calls findBestInventoryMatch; nothing
\* in normalizeToolMatches catches, so the call ends without a result
ThrowInCallback ==
  /\ pc = "map"
  /\ index <= Len(rawMatches)
  /\ callbackThrows(rawMatches[index])
  /\ pc' = "threw"
  /\ UNCHANGED <<rawMatches, inventory, result, calls, history>>
  /\ UNCHANGED locals
  /\ UNCHANGED outsideMatcher

\* an iteration of the loop of findBestInventoryMatch raises
ThrowInScore ==
  /\ pc = "map"
  /\ index <= Len(rawMatches)
  /\ ~callbackThrows(rawMatches[index])
  /\ requiredToolNameOf(rawMatches[index]) # << >>
  /\ scanned < Len(inventory)
  /\ scoreThrows(requiredToolNameOf(rawMatches[index]), inventory[scanned + 1])
  /\ pc' = "threw"
  /\ UNCHANGED <<rawMatches, inventory, result, calls, history>>
  /\ UNCHANGED locals
  /\ UNCHANGED outsideMatcher

\* mutant: the map outlives the call, as a map of module scope would
keptDedup == dedup

\* the value of dedup at its declaration: new Map<string, ToolMatch>()
freshDedup == newMap

\* const dedup = new Map<string, ToolMatch>()
StartDedup ==
  /\ pc = "map"
  /\ index > Len(rawMatches)
  /\ dedup' = freshDedup
  /\ index' = 1
  /\ pc' = "dedup"
  /\ UNCHANGED <<rawMatches, inventory, inventoryById, scanned, best, scores,
                 normalized, bestMatches, result, calls, history>>
  /\ UNCHANGED outsideMatcher

\* one iteration of for (const match of normalized)
DedupMatch ==
  /\ pc = "dedup"
  /\ index <= Len(normalized)
  /\ dedup' = dedupStep(dedup, normalized[index])
  /\ index' = index + 1
  /\ UNCHANGED <<rawMatches, inventory, pc, inventoryById, scanned, best, scores,
                 normalized, bestMatches, result, calls, history>>
  /\ UNCHANGED outsideMatcher

\* return Array.from(dedup.values())
Return ==
  /\ pc = "dedup"
  /\ index > Len(normalized)
  /\ result' = mapValues(dedup)
  /\ pc' = "done"
  /\ history' = Append(history, completed)
  /\ UNCHANGED <<rawMatches, inventory, calls>>
  /\ UNCHANGED locals
  /\ UNCHANGED outsideMatcher

\* analyzeWorkTask calls normalizeToolMatches again, with a new snapshot; the
\* locals of the call that returned are dead until the new call assigns them
NewCall ==
  /\ pc = "done"
  /\ calls < MaxCalls
  /\ \E input \in CallInputs :
       /\ rawMatches' = input.rawMatches
       /\ inventory' = input.inventory
  /\ pc' = "start"
  /\ calls' = calls + 1
  /\ UNCHANGED <<result, history>>
  /\ UNCHANGED locals
  /\ UNCHANGED outsideMatcher

\* analyzeWorkTask calls normalizeToolMatches once more, with the same
\* inventory and requirements whose required flags alone may have changed
NewCallReflagged ==
  /\ pc = "done"
  /\ Len(history) = 1
  /\ rawMatches' \in reflagged(rawMatches)
  /\ pc' = "start"
  /\ calls' = calls + 1
  /\ UNCHANGED <<inventory, result, history>>
  /\ UNCHANGED locals
  /\ UNCHANGED outsideMatcher

\* the matcher is not running: normalizeToolMatches with no requirement
MatcherIdle ==
  /\ rawMatches = << >>
  /\ inventory = << >>
  /\ pc = "start"
  /\ inventoryById = << >>
  /\ index = 0
  /\ scanned = 0
  /\ best = Null
  /\ scores = << >>
  /\ normalized = << >>
  /\ bestMatches = << >>
  /\ dedup = << >>
  /\ result = << >>
  /\ calls = 1
  /\ history = << >>

\* pairs of calls of buildBarcodeVariants
InitVariants ==
  /\ codes \in CodePairs
  /\ expansions = << >>
  /\ FilterIdle
  /\ ResolverIdle
  /\ MatcherIdle
  /\ LibraryIdle

\* the next call of buildBarcodeVariants returns
Expand ==
  /\ Len(expansions) < Len(codes)
  /\ expansions' = Append(expansions, buildBarcodeVariants(codes[Len(expansions) + 1]))
  /\ UNCHANGED <<codes, expectedBarcode, candidateItem, filterResult>>
  /\ UNCHANGED <<matcherState, resolverState, libraryState>>

\* one call of hasStrongBarcodeMatch
InitFilter ==
  /\ expectedBarcode \in FilterCodes
  /\ candidateItem \in FilterItems
  /\ filterResult = << >>
  /\ VariantsIdle
  /\ ResolverIdle
  /\ MatcherIdle
  /\ LibraryIdle

\* hasStrongBarcodeMatch returns
Filter ==
  /\ candidateItem # Null
  /\ filterResult = << >>
  /\ filterResult' = <<hasStrongBarcodeMatch(candidateItem, expectedBarcode)>>
  /\ UNCHANGED <<codes, expansions, expectedBarcode, candidateItem>>
  /\ UNCHANGED <<matcherState, resolverState, libraryState>>

\* one call of analyzeBarcode
InitResolve ==
  /\ barcodeInput \in ResolverCodes
  /\ isNativePlatform \in BOOLEAN
  /\ apiKey \in {"", "key"}
  /\ rpc = "start"
  /\ ResolverLocalsInit
  /\ VariantsIdle
  /\ FilterIdle
  /\ MatcherIdle
  /\ LibraryIdle

\* what no step of analyzeBarcode before the AI call changes
resolverFrame ==
  <<resolverInputs, functionState, matcherState, libraryState, answerLocals>>

\* if (!apiKey) throw new Error('API Key missing. ...')
MissingApiKey ==
  /\ rpc = "start"
  /\ apiKey = ""
  /\ rpc' = "threw"
  /\ UNCHANGED <<loopCodes, codeIndex, endpointIndex, pending, requests,
                 lastOutcome, lookedUp, accepted, webSearchContext>>
  /\ UNCHANGED resolverFrame

\* both lookups have returned: lookedUp is assigned
LookupsReturn(record, from) ==
  /\ lookedUp' = record
  /\ accepted' = from
  /\ rpc' = "lookedUp"
  /\ UNCHANGED <<loopCodes, codeIndex, endpointIndex>>

\* lookupOpenFactsProduct is called: it returns null without a digit-only
\* variant, else its loops start
EnterMirrors(record, from) ==
  LET uniqueCodes == digitVariants(buildBarcodeVariants(barcodeInput))
  IN  IF Len(uniqueCodes) = 0
      THEN LookupsReturn(record, from)
      ELSE /\ loopCodes' = uniqueCodes
           /\ codeIndex' = 1
           /\ endpointIndex' = 1
           /\ rpc' = "mirror"
           /\ lookedUp' = record
           /\ accepted' = from

\* lookupBarcodeProduct returns record: the || of analyzeBarcode decides
\* whether lookupOpenFactsProduct is called
PrimaryReturns(record, from) ==
  IF triesMirrors(record) THEN EnterMirrors(record, from) ELSE LookupsReturn(record, from)

\* lookupBarcodeProduct is called: it returns null for an empty variant set,
\* else its loop over queryVariants starts
StartLookup ==
  /\ rpc = "start"
  /\ apiKey # ""
  /\ IF Len(buildBarcodeVariants(barcodeInput)) = 0
     THEN PrimaryReturns(Null, Null)
     ELSE /\ loopCodes' = digitVariants(buildBarcodeVariants(barcodeInput))
          /\ codeIndex' = 1
          /\ rpc' = "primary"
          /\ UNCHANGED <<endpointIndex, lookedUp, accepted>>
  /\ UNCHANGED <<pending, requests, lastOutcome, webSearchContext>>
  /\ UNCHANGED resolverFrame

\* a request leaves and the caller awaits it
Issue(source, endpoint, code) ==
  LET request == [source |-> source, endpoint |-> endpoint, code |-> code]
  IN  /\ pending = Null
      /\ requests' = Append(requests, request)
      /\ pending' = [request |-> request, phase |-> "response",
                     timeoutMs |-> timeoutOf(isNativePlatform, source)]
      /\ UNCHANGED <<rpc, loopCodes, codeIndex, endpointIndex, lastOutcome,
                     lookedUp, accepted, webSearchContext>>
      /\ UNCHANGED resolverFrame

\* await getJson(`https://api.upcitemdb.com/prod/trial/lookup?upc=${code}`, 4500)
IssuePrimary ==
  /\ rpc = "primary"
  /\ codeIndex <= Len(loopCodes)
  /\ Issue("primary", PrimaryEndpoint, loopCodes[codeIndex])

\* the loop of lookupBarcodeProduct ends: return null
PrimaryExhausted ==
  /\ rpc = "primary"
  /\ pending = Null
  /\ codeIndex > Len(loopCodes)
  /\ PrimaryReturns(Null, Null)
  /\ UNCHANGED <<pending, requests, lastOutcome, webSearchContext>>
  /\ UNCHANGED resolverFrame

\* await getJson(`${endpoint}/${code}.json`, 4500)
IssueMirror ==
  /\ rpc = "mirror"
  /\ codeIndex <= Len(loopCodes)
  /\ Issue("mirror", endpoints[endpointIndex], loopCodes[codeIndex])

\* the loops of lookupOpenFactsProduct end: return null
MirrorExhausted ==
  /\ rpc = "mirror"
  /\ pending = Null
  /\ codeIndex > Len(loopCodes)
  /\ LookupsReturn(lookedUp, accepted)
  /\ UNCHANGED <<pending, requests, lastOutcome, webSearchContext>>
  /\ UNCHANGED resolverFrame

\* the continuation of lookupBarcodeProduct after await getJson
ResumePrimary(payload) ==
  IF payload = Thrown
  THEN PrimaryReturns(Null, Null)
  ELSE IF payload = Null
  THEN /\ codeIndex' = nextCode(codeIndex)
       /\ UNCHANGED <<rpc, loopCodes, endpointIndex, lookedUp, accepted>>
  ELSE LET matched == findMatched(payload.items, barcodeInput)
       IN  IF matched = 0
           THEN /\ codeIndex' = nextCode(codeIndex)
                /\ UNCHANGED <<rpc, loopCodes, endpointIndex, lookedUp, accepted>>
           ELSE PrimaryReturns(primaryResultOf(payload.items[matched]),
                               [source |-> "primary",
                                candidate |-> payload.items[matched]])

\* continue: the next endpoint, after the last one the next code
NextEndpoint ==
  /\ IF endpointIndex < Len(endpoints)
     THEN /\ endpointIndex' = endpointIndex + 1
          /\ codeIndex' = codeIndex
     ELSE /\ endpointIndex' = 1
          /\ codeIndex' = nextCode(codeIndex)
  /\ UNCHANGED <<rpc, loopCodes, lookedUp, accepted>>

\* the continuation of lookupOpenFactsProduct after await getJson
ResumeMirror(payload) ==
  IF payload = Thrown
  THEN LookupsReturn(Null, Null)
  ELSE IF payload = Null
  THEN NextEndpoint
  ELSE IF payload.product = Null
  THEN NextEndpoint
  ELSE IF mirrorThrows(payload.product)
  THEN LookupsReturn(Null, Null)
  ELSE IF mirrorIsBlank(payload.product)
  THEN NextEndpoint
  ELSE LookupsReturn(mirrorResultOf(payload.product),
                     [source |-> "mirror", candidate |-> payload.product])

\* the continuation of analyzeBarcode after await lookupBarcodeViaWebSearch:
\* fetchWebSearch gives the page of a 2xx response whose data is a string,
\* and null otherwise; an empty page gives null
ResumeWeb(outcome) ==
  /\ webSearchContext' =
       IF outcome.kind = "ok" /\ outcome.body # << >> THEN "text" ELSE "null"
  /\ rpc' = "ai"
  /\ UNCHANGED <<loopCodes, codeIndex, endpointIndex, lookedUp, accepted>>

\* the awaited request ends and the code after the await runs
Settle(outcome) ==
  /\ pending' = Null
  /\ lastOutcome' = outcome.kind
  /\ IF pending.request.source = "primary"
     THEN ResumePrimary(getJson(outcome)) /\ UNCHANGED webSearchContext
     ELSE IF pending.request.source = "mirror"
     THEN ResumeMirror(getJson(outcome)) /\ UNCHANGED webSearchContext
     ELSE ResumeWeb(outcome)
  /\ UNCHANGED requests
  /\ UNCHANGED resolverFrame

\* the outcomes that can end the pending await now: in a browser the status
\* comes with the headers and the body is parsed after them
canFailWith(kind) ==
  IF kind = "networkFailure" THEN TRUE
  ELSE IF isNativePlatform THEN TRUE
  ELSE IF kind = "status" THEN pending.phase = "response"
  ELSE pending.phase = "body"

\* the request is rejected, answered with a status outside 200..299, or
\* answered with a body that is not JSON (for the web search: not a string)
RequestFails ==
  /\ pending # Null
  /\ \E kind \in FailureKinds :
       /\ canFailWith(kind)
       /\ Settle(Failure(kind))

\* setTimeout(() => reject(new Error('Timed out')), timeoutMs) of withTimeout
TimeoutFires ==
  /\ pending # Null
  /\ pending.timeoutMs > 0
  /\ Settle(Failure("timeout"))

\* in a browser fetch(url) resolves with the headers, which ends the race of
\* withTimeout; await response.json() then waits for the body
HeadersArrive ==
  /\ pending # Null
  /\ ~isNativePlatform
  /\ pending.phase = "response"
  /\ pending' = [pending EXCEPT !.phase = "body", !.timeoutMs = 0]
  /\ UNCHANGED <<rpc, loopCodes, codeIndex, endpointIndex, requests, lastOutcome,
                 lookedUp, accepted, webSearchContext>>
  /\ UNCHANGED resolverFrame

\* the whole answer is there
answered == IF isNativePlatform THEN pending.phase = "response" ELSE pending.phase = "body"

PrimaryResponds ==
  /\ pending # Null
  /\ pending.request.source = "primary"
  /\ answered
  /\ \E body \in PrimaryBodies : Settle(Ok(body))

MirrorResponds ==
  /\ pending # Null
  /\ pending.request.source = "mirror"
  /\ answered
  /\ \E body \in MirrorBodies : Settle(Ok(body))

WebSearchResponds ==
  /\ pending # Null
  /\ pending.request.source = "web"
  /\ \E page \in WebPages : Settle(Ok(page))

\* if (!hasLookupSignal) is false: the prompt is built and the AI is called
SkipWebSearch ==
  /\ rpc = "lookedUp"
  /\ hasLookupSignal(lookedUp)
  /\ rpc' = "ai"
  /\ UNCHANGED <<loopCodes, codeIndex, endpointIndex, pending, requests,
                 lastOutcome, lookedUp, accepted, webSearchContext>>
  /\ UNCHANGED resolverFrame

\* fetchWebSearch outside a native platform: console.warn and return null
WebSearchUnsupported ==
  /\ rpc = "lookedUp"
  /\ ~hasLookupSignal(lookedUp)
  /\ ~isNativePlatform
  /\ rpc' = "ai"
  /\ webSearchContext' = "null"
  /\ UNCHANGED <<loopCodes, codeIndex, endpointIndex, pending, requests,
                 lastOutcome, lookedUp, accepted>>
  /\ UNCHANGED resolverFrame

\* await CapacitorHttp.get({ url, headers }) of fetchWebSearch, for the
\* query `${barcode} product`
IssueWebSearch ==
  /\ rpc = "lookedUp"
  /\ ~hasLookupSignal(lookedUp)
  /\ isNativePlatform
  /\ pending = Null
  /\ requests' = Append(requests, [source |-> "web", endpoint |-> WebSearchEndpoint,
                                   code |-> barcodeInput])
  /\ pending' = [request |-> [source |-> "web", endpoint |-> WebSearchEndpoint,
                              code |-> barcodeInput],
                 phase |-> "response",
                 timeoutMs |-> timeoutOf(isNativePlatform, "web")]
  /\ rpc' = "web"
  /\ UNCHANGED <<loopCodes, codeIndex, endpointIndex, lastOutcome, lookedUp,
                 accepted, webSearchContext>>
  /\ UNCHANGED resolverFrame

\* await runWithModelFallback(prompt, imageData) rejects:
\* generateWithConfiguredProvider threw, and so does analyzeBarcode
AiCallFails ==
  /\ rpc = "ai"
  /\ aiText = Null
  /\ aiText' = Thrown
  /\ rpc' = "threw"
  /\ UNCHANGED <<parsed, analysis>>
  /\ UNCHANGED lookupLocals
  /\ UNCHANGED <<resolverInputs, functionState, matcherState, libraryState>>

\* await runWithModelFallback(prompt, imageData) gives a text: safeParseJSON
\* throws or the analysis is built and returned
AiCallReturns ==
  /\ rpc = "ai"
  /\ aiText = Null
  /\ \E answer \in AiAnswers :
       /\ aiText' = answer
       /\ IF safeParseJSON(answer) = Thrown
          THEN /\ rpc' = "threw"
               /\ UNCHANGED <<parsed, analysis>>
          ELSE /\ parsed' = validateToolAnalysis(safeParseJSON(answer))
               /\ analysis' = returnedAnalysis(validateToolAnalysis(safeParseJSON(answer)),
                                               barcodeInput, lookedUp)
               /\ rpc' = "returned"
  /\ UNCHANGED lookupLocals
  /\ UNCHANGED <<resolverInputs, functionState, matcherState, libraryState>>

\* the steps the event loop runs as soon as they can run
ResolverStep ==
  \/ MissingApiKey
  \/ StartLookup
  \/ IssuePrimary
  \/ PrimaryExhausted
  \/ IssueMirror
  \/ MirrorExhausted
  \/ SkipWebSearch
  \/ WebSearchUnsupported
  \/ IssueWebSearch

\* a caller makes the same call on both cache modules; the rest of the
\* program is not running
cacheFrame == <<matcherState, functionState, resolverState, clientState, reminderState>>

\* setCache(key, data)
SetCache(key, data) ==
  /\ Len(cacheLog) < MaxCacheOps
  /\ cache' = cacheSet(cache, key, data, now)
  /\ prefixIndex' = IF mapHas(indexedCache, key) THEN prefixIndex
                    ELSE registerKeyInPrefixIndex(prefixIndex, key)
  /\ indexedCache' = cacheSet(indexedCache, key, data, now)
  /\ cacheLog' = Append(cacheLog, "setCache")
  /\ UNCHANGED now
  /\ UNCHANGED cacheFrame

\* invalidateCache(keyOrPrefix)
InvalidateCache(keyOrPrefix) ==
  /\ Len(cacheLog) < MaxCacheOps
  /\ cache' = invalidateByScan(cache, keyOrPrefix)
  /\ indexedCache' = invalidateByIndex(indexedCache, prefixIndex, keyOrPrefix)
  /\ prefixIndex' = indexAfterInvalidate(indexedCache, prefixIndex, keyOrPrefix)
  /\ cacheLog' = Append(cacheLog, "invalidateCache")
  /\ UNCHANGED now
  /\ UNCHANGED cacheFrame

\* clearCache()
ClearCache ==
  /\ Len(cacheLog) < MaxCacheOps
  /\ cache' = newMap
  /\ indexedCache' = newMap
  /\ prefixIndex' = newMap
  /\ cacheLog' = Append(cacheLog, "clearCache")
  /\ UNCHANGED now
  /\ UNCHANGED cacheFrame

\* time passes between two calls: once the whole stale period, so that an
\* entry is on the boundary after one period and stale after two
TimePasses ==
  /\ Len(cacheLog) < MaxCacheOps
  /\ now' = now + DEFAULT_STALE_MS
  /\ cacheLog' = Append(cacheLog, "wait")
  /\ UNCHANGED <<cache, indexedCache, prefixIndex>>
  /\ UNCHANGED cacheFrame

SetCacheCalled == \E key \in CacheKeys, data \in CacheData : SetCache(key, data)
InvalidateCacheCalled == \E keyOrPrefix \in InvalidateArguments : InvalidateCache(keyOrPrefix)

InitCache ==
  /\ CacheIdle
  /\ ClientIdle
  /\ RemindersIdle
  /\ MatcherIdle
  /\ VariantsIdle
  /\ FilterIdle
  /\ ResolverIdle

NextCache ==
  \/ SetCacheCalled
  \/ InvalidateCacheCalled
  \/ ClearCache
  \/ TimePasses

\* what generateWithConfiguredProvider leaves alone
clientFrame == <<clientInputs, matcherState, functionState, resolverState, cacheState, reminderState>>

InitGenerate ==
  /\ provider \in AIProviders
  /\ storedApiKey \in StoredApiKeys
  /\ storedModels \in StoredModelLists
  /\ modelCandidates \in InputModelLists
  /\ gpc = "start"
  /\ ClientLocalsInit
  /\ CacheIdle
  /\ RemindersIdle
  /\ MatcherIdle
  /\ VariantsIdle
  /\ FilterIdle
  /\ ResolverIdle

\* if (!apiKey) throw new Error('API key missing for ...')
ApiKeyMissing ==
  /\ gpc = "start"
  /\ trim(storedApiKey) = << >>
  /\ generated' = [threw |-> <<"A", "P", "I", " ", "k", "e", "y", " ", "m", "i", "s", "s", "i", "n", "g">>]
  /\ gpc' = "threw"
  /\ UNCHANGED <<models, modelIndex, attempts, sawQuotaOrRateError, lastError>>
  /\ UNCHANGED clientFrame

\* if (models.length === 0) throw new Error('No models configured ...')
NoModels ==
  /\ gpc = "start"
  /\ trim(storedApiKey) # << >>
  /\ modelsOf(modelCandidates, provider, storedModels) = << >>
  /\ models' = << >>
  /\ generated' = [threw |-> <<"N", "o", " ", "m", "o", "d", "e", "l", "s", " ", "c", "o", "n", "f", "i", "g", "u", "r", "e", "d">>]
  /\ gpc' = "threw"
  /\ UNCHANGED <<modelIndex, attempts, sawQuotaOrRateError, lastError>>
  /\ UNCHANGED clientFrame

\* the statements up to the loop
EnterModelLoop ==
  /\ gpc = "start"
  /\ trim(storedApiKey) # << >>
  /\ modelsOf(modelCandidates, provider, storedModels) # << >>
  /\ models' = modelsOf(modelCandidates, provider, storedModels)
  /\ modelIndex' = 1
  /\ gpc' = "loop"
  /\ UNCHANGED <<attempts, sawQuotaOrRateError, lastError, generated>>
  /\ UNCHANGED clientFrame

\* await callProviderModel(provider, apiKey, model, ...) is entered
CallProviderModel ==
  /\ gpc = "loop"
  /\ modelIndex <= Len(models)
  /\ attempts' = Append(attempts, [model |-> models[modelIndex], ended |-> "pending"])
  /\ gpc' = "calling"
  /\ UNCHANGED <<models, modelIndex, sawQuotaOrRateError, lastError, generated>>
  /\ UNCHANGED clientFrame

\* how the running call of callProviderModel is marked as ended
endedAs(outcome) == [attempts EXCEPT ![Len(attempts)].ended = outcome]

\* callProviderModel returns a text: return { text, provider, model }
ModelAnswers ==
  /\ gpc = "calling"
  /\ \E text \in ModelTexts :
       generated' = [text |-> text, provider |-> provider, model |-> models[modelIndex]]
  /\ attempts' = endedAs("returned")
  /\ gpc' = "returned"
  /\ UNCHANGED <<models, modelIndex, sawQuotaOrRateError, lastError>>
  /\ UNCHANGED clientFrame

\* callProviderModel throws: the catch block, then the next model
ModelFails ==
  /\ gpc = "calling"
  /\ \E message \in ErrorMessages :
       /\ lastError' = message
       /\ sawQuotaOrRateError' = (sawQuotaOrRateError \/ isRateOrQuotaIssue(message))
  /\ attempts' = endedAs("threw")
  /\ modelIndex' = nextModel(modelIndex)
  /\ gpc' = "loop"
  /\ UNCHANGED <<models, generated>>
  /\ UNCHANGED clientFrame

\* the loop is over: the two throw statements after it
AllModelsFailed ==
  /\ gpc = "loop"
  /\ modelIndex > Len(models)
  /\ generated' = [threw |-> IF sawQuotaOrRateError
                             THEN <<"m", "o", "d", "e", "l", " ", "c", "a", "p", "a", "c", "i", "t", "y", "/", "q", "u", "o", "t", "a", " ", "r", "e", "a", "c", "h", "e", "d">>
                             ELSE lastError]
  /\ gpc' = "threw"
  /\ UNCHANGED <<models, modelIndex, attempts, sawQuotaOrRateError, lastError>>
  /\ UNCHANGED clientFrame

NextGenerate ==
  \/ ApiKeyMissing
  \/ NoModels
  \/ EnterModelLoop
  \/ CallProviderModel
  \/ ModelAnswers
  \/ ModelFails
  \/ AllModelsFailed

\* what the reminders leave alone
reminderFrame ==
  <<reminderInputs, matcherState, functionState, resolverState, cacheState, clientState>>

InitReminders ==
  /\ reminderPlatform \in {"native", "web"}
  /\ remindersEnabled \in BOOLEAN
  /\ permissionGranted \in BOOLEAN
  /\ signedIn \in BOOLEAN
  /\ reminderData \in ReminderData
  /\ RemindersStart
  /\ CacheIdle
  /\ ClientIdle
  /\ MatcherIdle
  /\ VariantsIdle
  /\ FilterIdle
  /\ ResolverIdle

\* call s of syncSmartReminders moves to a new place
syncMoves(s, place) == syncPc' = [syncPc EXCEPT ![s] = place]

\* triggerSmartReminderSync(): the call runs to its first await, or returns
\* at once when the platform is not native
TriggerSync(s) ==
  /\ syncPc[s] = "idle"
  /\ \A earlier \in 1 .. (s - 1) : syncPc[earlier] # "idle"
  /\ syncMoves(s, IF reminderPlatform # "native" THEN "returned"
                  ELSE IF ~remindersEnabled THEN "cancelDisabled"
                  ELSE "permission")
  /\ changedSinceLastStart' = FALSE
  /\ UNCHANGED <<reminderData, syncCounts, pendingNotifications, lastSync>>
  /\ UNCHANGED reminderFrame

\* reminders are switched off: the cancel call resolves, the last sync is cleared
CancelWhenDisabled(s) ==
  /\ syncPc[s] = "cancelDisabled"
  /\ pendingNotifications' = cancelAll(pendingNotifications)
  /\ lastSync' = "null"
  /\ syncMoves(s, "returned")
  /\ UNCHANGED <<reminderData, syncCounts, changedSinceLastStart>>
  /\ UNCHANGED reminderFrame

\* await hasGrantedPermission() resolves
PermissionAnswers(s) ==
  /\ syncPc[s] = "permission"
  /\ syncMoves(s, IF permissionGranted THEN "user" ELSE "threw")
  /\ UNCHANGED <<reminderData, syncCounts, pendingNotifications, lastSync,
                 changedSinceLastStart>>
  /\ UNCHANGED reminderFrame

\* await supabase.auth.getUser() resolves
UserAnswers(s) ==
  /\ syncPc[s] = "user"
  /\ syncMoves(s, IF signedIn THEN "counts" ELSE "threw")
  /\ UNCHANGED <<reminderData, syncCounts, pendingNotifications, lastSync,
                 changedSinceLastStart>>
  /\ UNCHANGED reminderFrame

\* await getReminderCounts() resolves with what the queries count now
CountsAnswer(s) ==
  /\ syncPc[s] = "counts"
  /\ syncCounts' = [syncCounts EXCEPT ![s] = reminderData]
  /\ syncMoves(s, "cancel")
  /\ UNCHANGED <<reminderData, pendingNotifications, lastSync, changedSinceLastStart>>
  /\ UNCHANGED reminderFrame

\* a query of getReminderCounts comes back with an error
CountsFail(s) ==
  /\ syncPc[s] = "counts"
  /\ syncMoves(s, "threw")
  /\ UNCHANGED <<reminderData, syncCounts, pendingNotifications, lastSync,
                 changedSinceLastStart>>
  /\ UNCHANGED reminderFrame

\* await LocalNotifications.cancel(...) resolves; with nothing to schedule the
\* call writes the last sync and returns without another await
CancelResolves(s) ==
  /\ syncPc[s] = "cancel"
  /\ pendingNotifications' = cancelAll(pendingNotifications)
  /\ IF notificationsOf(syncCounts[s]) = NoNotifications
     THEN /\ lastSync' = s
          /\ syncMoves(s, "returned")
     ELSE /\ syncMoves(s, "schedule")
          /\ UNCHANGED lastSync
  /\ UNCHANGED <<reminderData, syncCounts, changedSinceLastStart>>
  /\ UNCHANGED reminderFrame

\* await LocalNotifications.schedule({ notifications }) resolves; the call
\* writes the last sync and returns
ScheduleResolves(s) ==
  /\ syncPc[s] = "schedule"
  /\ pendingNotifications' =
       scheduleOver(pendingNotifications, notificationsOf(syncCounts[s]))
  /\ lastSync' = s
  /\ syncMoves(s, "returned")
  /\ UNCHANGED <<reminderData, syncCounts, changedSinceLastStart>>
  /\ UNCHANGED reminderFrame

\* the user edits tools, loans or stock: the queries now count something else
DataChanges ==
  /\ \E counts \in ReminderData \ {reminderData} : reminderData' = counts
  /\ changedSinceLastStart' = (\E s \in Syncs : syncPc[s] # "idle")
  /\ UNCHANGED <<syncPc, syncCounts, pendingNotifications, lastSync>>
  /\ UNCHANGED reminderFrame

NextReminders ==
  \/ \E s \in Syncs :
       \/ TriggerSync(s)
       \/ CancelWhenDisabled(s)
       \/ PermissionAnswers(s)
       \/ UserAnswers(s)
       \/ CountsAnswer(s)
       \/ CountsFail(s)
       \/ CancelResolves(s)
       \/ ScheduleResolves(s)
  \/ DataChanges

NextResolve ==
  \/ MissingApiKey
  \/ StartLookup
  \/ IssuePrimary
  \/ PrimaryExhausted
  \/ IssueMirror
  \/ MirrorExhausted
  \/ RequestFails
  \/ TimeoutFires
  \/ HeadersArrive
  \/ PrimaryResponds
  \/ MirrorResponds
  \/ WebSearchResponds
  \/ SkipWebSearch
  \/ WebSearchUnsupported
  \/ IssueWebSearch
  \/ AiCallFails
  \/ AiCallReturns

Next ==
  \/ ReturnEmpty
  \/ BuildIndex
  \/ ScoreCandidate
  \/ MapRaw
  \/ StartDedup
  \/ DedupMatch
  \/ Return

NextCalls == Next \/ NewCall

NextFlags == Next \/ NewCallReflagged

NextMalformed == Next \/ ThrowInCallback \/ ThrowInScore

Spec == Init /\ [][Next]_vars
SpecDedup == InitDedup /\ [][Next]_vars
SpecCalls == InitCalls /\ [][NextCalls]_vars
SpecRepeated == InitRepeated /\ [][Next]_vars
SpecFlags == InitFlags /\ [][NextFlags]_vars
SpecMalformed == InitMalformed /\ [][NextMalformed]_vars
SpecVariants == InitVariants /\ [][Expand]_vars
SpecFilter == InitFilter /\ [][Filter]_vars
SpecResolve == InitResolve /\ [][NextResolve]_vars
SpecCache == InitCache /\ [][NextCache]_vars
SpecGenerate == InitGenerate /\ [][NextGenerate]_vars
SpecReminders == InitReminders /\ [][NextReminders]_vars

\* A step of the code runs once it can, and an armed timer fires unless the
\* request ended before; a server need not ever answer.
SpecResolveFair ==
  /\ InitResolve
  /\ [][NextResolve]_vars
  /\ WF_vars(ResolverStep)
  /\ WF_vars(TimeoutFires)

(* -------------------------------- claims ------------------------------- *)

InventoryIds == {inventory[j].id : j \in DOMAIN inventory}

\* the slot shows the id, name and location of a row of the inventory
ShowsInventoryItem(tool) ==
  \E j \in DOMAIN inventory :
    /\ tool.id = inventory[j].id
    /\ tool.name = inventory[j].name
    /\ tool.location = inventory[j].location

\* the proposal carries an id of a row of the inventory of this call
Resolves(proposal) == proposal # Null /\ proposal.id \in InventoryIds

\* the row of the inventory with that id (ids are primary keys)
ItemWithId(id) == inventory[CHOOSE j \in DOMAIN inventory : inventory[j].id = id]

\* C1: every owned or alternative tool of a returned ToolMatch shows the id,
\* the name and the location of an item of the inventory passed to the call;
\* an id of the remote model that the inventory lacks never comes out.
C1_ReturnedToolsAreInventoryItems ==
  pc = "done" =>
    \A k \in DOMAIN result :
      /\ result[k].ownedTool # Null => ShowsInventoryItem(result[k].ownedTool)
      /\ result[k].alternativeTool # Null => ShowsInventoryItem(result[k].alternativeTool)

\* a call returned an owned tool although the model had proposed an owned
\* and an alternative tool by ids the inventory lacks
C1_Witness ==
  /\ pc = "done"
  /\ Len(result) = 1
  /\ result[1].ownedTool # Null
  /\ rawMatches[1].ownedTool # Null
  /\ rawMatches[1].alternativeTool # Null
  /\ ~Resolves(rawMatches[1].ownedTool)
  /\ ~Resolves(rawMatches[1].alternativeTool)

\* C2: when the owned tool the model proposed resolves to an inventory item,
\* the match is owned, shows exactly that item and has no alternative tool,
\* whatever matchStatus, alternative proposal and heuristic scores are.
C2_ProposedOwnedIdWins ==
  \A k \in DOMAIN normalized :
    Resolves(rawMatches[k].ownedTool) =>
      /\ normalized[k].matchStatus = "owned"
      /\ normalized[k].ownedTool = ownedToolFrom(ItemWithId(rawMatches[k].ownedTool.id))
      /\ normalized[k].alternativeTool = Null

\* the proposed owned item won against a confident heuristic match for another
\* item, a resolving alternative proposal and a matchStatus of missing
C2_Witness ==
  \E k \in DOMAIN normalized :
    /\ Resolves(rawMatches[k].ownedTool)
    /\ Resolves(rawMatches[k].alternativeTool)
    /\ rawMatches[k].matchStatus = "missing"
    /\ bestMatches[k] # Null
    /\ bestMatches[k].score >= OwnedThreshold
    /\ bestMatches[k].item.id # rawMatches[k].ownedTool.id
    /\ normalized[k].ownedTool.id = rawMatches[k].ownedTool.id

\* C3: when neither proposal resolves, the best heuristic score alone decides,
\* whatever matchStatus the model gave: owned with the best match from 0.62,
\* alternative with the best match from 0.42 and below 0.62, else missing.
C3_HeuristicDecidesWithoutProposal ==
  \A k \in DOMAIN normalized :
    (~Resolves(rawMatches[k].ownedTool) /\ ~Resolves(rawMatches[k].alternativeTool)) =>
      LET bestMatch == bestMatches[k]
          match == normalized[k]
      IN  IF bestMatch # Null /\ bestMatch.score >= 744
          THEN /\ match.matchStatus = "owned"
               /\ match.ownedTool = ownedToolFrom(bestMatch.item)
               /\ match.alternativeTool = Null
          ELSE IF bestMatch # Null /\ bestMatch.score >= 504
          THEN /\ match.matchStatus = "alternative"
               /\ match.ownedTool = Null
               /\ match.alternativeTool.id = bestMatch.item.id
               /\ match.alternativeTool.name = bestMatch.item.name
               /\ match.alternativeTool.location = bestMatch.item.location
          ELSE /\ match.matchStatus = "missing"
               /\ match.ownedTool = Null
               /\ match.alternativeTool = Null

\* a best score of exactly 0.62 was classified owned against a matchStatus of
\* missing, with no proposal that resolves
C3_Witness ==
  \E k \in DOMAIN normalized :
    /\ ~Resolves(rawMatches[k].ownedTool)
    /\ ~Resolves(rawMatches[k].alternativeTool)
    /\ rawMatches[k].matchStatus = "missing"
    /\ bestMatches[k] # Null
    /\ bestMatches[k].score = 744
    /\ normalized[k].matchStatus = "owned"

\* the match shows that inventory item in its alternative slot and no owned tool
IsAlternative(match, item) ==
  /\ match.matchStatus = "alternative"
  /\ match.ownedTool = Null
  /\ match.alternativeTool # Null
  /\ match.alternativeTool.id = item.id
  /\ match.alternativeTool.name = item.name
  /\ match.alternativeTool.location = item.location

\* C4 as claimed: when no owned proposal resolves and the alternative proposal
\* does, the match is alternative with exactly that item, for every matchStatus
\* of the model and every heuristic score.
C4_Original ==
  \A k \in DOMAIN normalized :
    (~Resolves(rawMatches[k].ownedTool) /\ Resolves(rawMatches[k].alternativeTool)) =>
      IsAlternative(normalized[k], ItemWithId(rawMatches[k].alternativeTool.id))

\* C4 as amended: the same, unless the model's matchStatus is owned and the
\* best heuristic score is at least 0.62; then the match is owned with the
\* heuristic's best match and has no alternative tool.
C4_ProposedAlternativeIdWins ==
  \A k \in DOMAIN normalized :
    (~Resolves(rawMatches[k].ownedTool) /\ Resolves(rawMatches[k].alternativeTool)) =>
      IF /\ rawMatches[k].matchStatus = "owned"
         /\ bestMatches[k] # Null
         /\ bestMatches[k].score >= 744
      THEN /\ normalized[k].matchStatus = "owned"
           /\ normalized[k].ownedTool = ownedToolFrom(bestMatches[k].item)
           /\ normalized[k].alternativeTool = Null
      ELSE IsAlternative(normalized[k], ItemWithId(rawMatches[k].alternativeTool.id))

\* the proposed alternative was kept although the heuristic was confident of
\* owning another item, the model's matchStatus being alternative
C4_Witness ==
  \E k \in DOMAIN normalized :
    /\ ~Resolves(rawMatches[k].ownedTool)
    /\ Resolves(rawMatches[k].alternativeTool)
    /\ rawMatches[k].matchStatus = "alternative"
    /\ bestMatches[k] # Null
    /\ bestMatches[k].score >= 744
    /\ bestMatches[k].item.id # rawMatches[k].alternativeTool.id
    /\ normalized[k].matchStatus = "alternative"
    /\ normalized[k].alternativeTool.id = rawMatches[k].alternativeTool.id

\* C5: the model said alternative, neither proposal resolves and the best
\* heuristic score is at least 0.62: the match is owned with the heuristic's
\* best match and the alternative slot is empty.
C5_HeuristicOwnedBeatsAlternative ==
  \A k \in DOMAIN normalized :
    (/\ rawMatches[k].matchStatus = "alternative"
     /\ ~Resolves(rawMatches[k].ownedTool)
     /\ ~Resolves(rawMatches[k].alternativeTool)
     /\ bestMatches[k] # Null
     /\ bestMatches[k].score >= 744) =>
      /\ normalized[k].matchStatus = "owned"
      /\ normalized[k].ownedTool = ownedToolFrom(bestMatches[k].item)
      /\ normalized[k].alternativeTool = Null

\* the model proposed an alternative by an id the inventory lacks and the
\* heuristic found an owned tool
C5_Witness ==
  \E k \in DOMAIN normalized :
    /\ rawMatches[k].matchStatus = "alternative"
    /\ rawMatches[k].ownedTool = Null
    /\ rawMatches[k].alternativeTool # Null
    /\ ~Resolves(rawMatches[k].alternativeTool)
    /\ bestMatches[k] # Null
    /\ bestMatches[k].score >= 744
    /\ normalized[k].matchStatus = "owned"

AllMissing ==
  \A k \in DOMAIN result :
    /\ result[k].matchStatus = "missing"
    /\ result[k].ownedTool = Null
    /\ result[k].alternativeTool = Null

\* no character of the name is a letter a-z or a digit once lowercased
NoAlphaNumeric(name) == \A k \in DOMAIN name : toLowerCase(name[k]) \notin AlphaNumeric

\* the name is empty or white space only
IsBlank(name) == \A k \in DOMAIN name : name[k] \in WhiteSpace

\* C6 as claimed: with an empty inventory every returned match is missing with
\* both slots empty, and a single requirement yields a single result.
C6_Original ==
  (pc = "done" /\ inventory = << >>) =>
    /\ AllMissing
    /\ Len(rawMatches) = 1 => Len(result) = 1

\* C6 as amended: with an empty inventory every returned match is missing with
\* both slots empty; a single requirement yields a single result, except that
\* a name that is not blank and holds no letter a-z or digit yields none.
C6_EmptyInventoryAllMissing ==
  (pc = "done" /\ inventory = << >>) =>
    /\ AllMissing
    /\ Len(rawMatches) = 1 =>
         Len(result) = IF /\ NoAlphaNumeric(rawMatches[1].requiredToolName)
                          /\ ~IsBlank(rawMatches[1].requiredToolName)
                       THEN 0 ELSE 1

\* with an empty inventory, a requirement the model called owned and gave an
\* owned tool came back as the single, missing result
C6_Witness ==
  /\ pc = "done"
  /\ inventory = << >>
  /\ Len(rawMatches) = 1
  /\ rawMatches[1].matchStatus = "owned"
  /\ rawMatches[1].ownedTool # Null
  /\ Len(result) = 1
  /\ result[1].matchStatus = "missing"

\* the normalized requirement name of a match
KeyOf(match) == normalizeText(match.requiredToolName)

EntriesFor(key) == {j \in DOMAIN result : KeyOf(result[j]) = key}

OnlyMappedMatches == \A j \in DOMAIN result : \E k \in DOMAIN normalized : result[j] = normalized[k]

\* a match of that name was not missing, so the returned one is not missing
NonMissingKept(k) ==
  normalized[k].matchStatus # "missing" =>
    \A j \in EntriesFor(KeyOf(normalized[k])) : result[j].matchStatus # "missing"

\* C7 as claimed: the output holds exactly one entry per distinct normalized
\* requirement name, and the entry of a name that had a non-missing match is
\* not missing.
C7_Original ==
  pc = "done" =>
    /\ OnlyMappedMatches
    /\ \A k \in DOMAIN normalized :
         /\ Cardinality(EntriesFor(KeyOf(normalized[k]))) = 1
         /\ NonMissingKept(k)

\* C7 as amended: exactly one entry per distinct normalized requirement name
\* that is not empty (a blank name counts as "Unspecified tool"), no entry for
\* a name that normalizes to the empty string, and the entry of a name that
\* had a non-missing match is not missing.
C7_OneEntryPerNameNonMissingKept ==
  pc = "done" =>
    /\ OnlyMappedMatches
    /\ \A k \in DOMAIN normalized :
         /\ Cardinality(EntriesFor(KeyOf(normalized[k]))) =
              IF KeyOf(normalized[k]) = << >> THEN 0 ELSE 1
         /\ NonMissingKept(k)

\* two requirements written differently had the same normalized name, the
\* first was owned and the second missing, and the owned one alone came out
C7_Witness ==
  /\ pc = "done"
  /\ Len(normalized) = 2
  /\ normalized[1].requiredToolName # normalized[2].requiredToolName
  /\ KeyOf(normalized[1]) = KeyOf(normalized[2])
  /\ normalized[1].matchStatus = "owned"
  /\ normalized[2].matchStatus = "missing"
  /\ result = <<normalized[1]>>

\* findBestInventoryMatch is about to return: every candidate has been scored
ScanComplete ==
  /\ pc = "map"
  /\ index <= Len(rawMatches)
  /\ Len(inventory) > 0
  /\ scanned = Len(inventory)

\* C8: for a non-empty inventory findBestInventoryMatch returns the item with
\* the highest score, and among items sharing it the first in inventory order.
C8_BestIsFirstHighest ==
  ScanComplete =>
    /\ best # Null
    /\ \E j \in DOMAIN inventory :
         /\ best.item = inventory[j]
         /\ best.score = scores[j]
         /\ \A h \in DOMAIN inventory : scores[h] <= scores[j]
         /\ \A h \in 1 .. (j - 1) : scores[h] < scores[j]

\* two items shared the highest score, which was not zero, and the first was
\* returned
C8_Witness ==
  /\ ScanComplete
  /\ Len(inventory) = 2
  /\ scores[1] = scores[2]
  /\ scores[1] > 0
  /\ best.item = inventory[1]

\* the requirement tokens, by position, found as whole tokens of the candidate
TokensPresent(tokens, item) ==
  LET itemTokens == toTokens(corpusTextOf(item))
  IN  {p \in DOMAIN tokens : \E q \in DOMAIN itemTokens : itemTokens[q] = tokens[p]}

\* the requirement tokens, by position, one of whose synonyms is in the text
TokensWithSynonym(tokens, item) ==
  LET text == normalizeText(corpusTextOf(item))
  IN  {p \in DOMAIN tokens : someSynonymIn(tokens[p], text)}

\* C9: the score of a candidate is 0.7 if its normalized text contains the
\* normalized requirement name or that name contains the candidate's
\* normalized name, plus 0.3 times the fraction of requirement tokens that are
\* whole tokens of the candidate's text, plus the synonym bonus; so it is at
\* least 0.7 whenever the text contains the name.  (Units of 1/1200; stated of
\* the candidate the loop has just scored.)
C9_ScoreIsSumOfBonuses ==
  (pc = "map" /\ scanned >= 1) =>
    \A j \in {scanned} :
      LET name == normalizeText(requiredToolNameOf(rawMatches[index]))
          tokens == toTokens(requiredToolNameOf(rawMatches[index]))
          text == normalizeText(corpusTextOf(inventory[j]))
          contained == includes(text, name)
                       \/ includes(name, normalizeText(inventory[j].name))
      IN  /\ IF Len(tokens) = 0
             THEN scores[j] = IF contained THEN 840 ELSE 0
             ELSE scores[j] * Len(tokens) =
                    (IF contained THEN 840 ELSE 0) * Len(tokens)
                    + 360 * Cardinality(TokensPresent(tokens, inventory[j]))
                    + 96 * Cardinality(TokensWithSynonym(tokens, inventory[j]))
                         * Len(tokens)
          /\ includes(text, name) => scores[j] >= 840

\* "hammer drill" against the item named "Drill": the text does not contain
\* the name, the name contains the item's name, half of the tokens are present
C9_Witness ==
  /\ pc = "map"
  /\ Len(scores) >= 1
  /\ inventory[1] = ItemDrill
  /\ requiredToolNameOf(rawMatches[index]) = NameHammerDrill
  /\ scores[1] = 1020

\* C10: normalizeToolMatches keeps nothing from one call to the next: two
\* completed calls with equal requirements and equal inventory returned equal
\* results, whatever was called in between.
C10_EqualArgumentsEqualResults ==
  \A a, b \in DOMAIN history :
    (/\ history[a].rawMatches = history[b].rawMatches
     /\ history[a].inventory = history[b].inventory) =>
      history[a].result = history[b].result

\* the first and the third call had the same arguments and a result that is
\* not empty, the call between them had other arguments and another result
C10_Witness ==
  /\ Len(history) = 3
  /\ history[1].rawMatches = history[3].rawMatches
  /\ history[1].inventory = history[3].inventory
  /\ history[2].rawMatches # history[1].rawMatches
  /\ history[1].result # << >>
  /\ history[2].result # << >>
  /\ history[2].result # history[1].result
  /\ history[3].result = history[1].result

(* Malformed input.                                                        *)

\* C11: normalizeToolMatches never raises: a requirement with a missing or
\* wrong-typed field, a null element of the list or an item whose name is no
\* string is treated as empty, and the call still returns a list.
C11_NeverRaises == pc # "threw"

(* Barcode variants and the strong-match filter.                           *)

IsDigits(code) == \A k \in DOMAIN code : code[k] \in Range(DigitChars)

\* C12: for every 12-digit numeric string d, buildBarcodeVariants(d) and
\* buildBarcodeVariants("0" + d) both contain d and "0" + d, so they intersect.
C12_TwelveDigitVariantsIntersect ==
  (/\ Len(expansions) = 2
   /\ Len(codes[1]) = 12
   /\ IsDigits(codes[1])
   /\ codes[2] = <<"0">> \o codes[1])
  => LET shared == Range(expansions[1]) \cap Range(expansions[2])
     IN  /\ codes[1] \in shared
         /\ codes[2] \in shared

C12_Witness ==
  /\ Len(expansions) = 2
  /\ Len(codes[1]) = 12
  /\ IsDigits(codes[1])
  /\ codes[2] = <<"0">> \o codes[1]
  /\ Range(expansions[1]) \cap Range(expansions[2]) # {}

\* the texts found under the identifier keys of an item: a scalar gives its
\* text, a list the text of each scalar entry
IdentifiersUnder(raw) ==
  IF isScalar(raw) THEN {raw.text}
  ELSE IF isArray(raw)
       THEN {raw.entries[k].text : k \in {j \in DOMAIN raw.entries : isScalar(raw.entries[j])}}
       ELSE {}

IdentifiersOf(item) ==
  UNION {IdentifiersUnder(item[key]) : key \in {"upc", "ean", "gtin", "barcode"}}

VariantSet(code) == Range(buildBarcodeVariants(code))

SharesVariant(item, barcode) ==
  \E identifier \in IdentifiersOf(item) :
    VariantSet(identifier) \cap VariantSet(barcode) # {}

\* C13: hasStrongBarcodeMatch(item, barcode) is true exactly when the variant
\* set of some identifier under the item's upc, ean, gtin or barcode key
\* (scalar or list entry) intersects the variant set of the barcode.
C13_StrongMatchIffVariantsIntersect ==
  filterResult # << >>
  => (filterResult[1] <=> SharesVariant(candidateItem, expectedBarcode))

\* an accepted candidate whose identifier differs from the query as a string,
\* and a rejected one that has an identifier
C13_Witness ==
  /\ filterResult = <<TRUE>>
  /\ expectedBarcode = CodeUpc
  /\ IdentifiersOf(candidateItem) = {CodeEan}

C13_WitnessRejected ==
  /\ filterResult = <<FALSE>>
  /\ expectedBarcode = CodeUpc
  /\ IdentifiersOf(candidateItem) = {CodeOther}

(* The lookup phase of analyzeBarcode.                                     *)

\* the identifier a mirror's product carries, next to the four filtered keys
CodesMatch(candidate) ==
  IF "code" \in DOMAIN candidate
  THEN VariantSet(candidate.code) \cap VariantSet(barcodeInput) # {}
  ELSE FALSE

\* C14: every record the lookups return comes from a candidate that passed
\* the strong-match filter against the queried barcode: an identifier the
\* candidate carries corresponds to the query.
C14_ReturnedRecordPassedFilter ==
  lookedUp # Null
  => \/ hasStrongBarcodeMatch(accepted.candidate, barcodeInput)
     \/ CodesMatch(accepted.candidate)

IsLookup(request) == request.source # "web"

LookupRequests == SelectSeq(requests, IsLookup)

\* the fixed order: the primary source for each digit-only variant, then for
\* each digit-only variant each mirror endpoint
DigitOnly == digitVariants(buildBarcodeVariants(barcodeInput))

ExpectedRequests ==
  [k \in 1 .. Len(DigitOnly) |->
     [source |-> "primary", endpoint |-> PrimaryEndpoint, code |-> DigitOnly[k]]]
  \o [k \in 1 .. 2 * Len(DigitOnly) |->
        [source |-> "mirror",
         endpoint |-> endpoints[((k - 1) % 2) + 1],
         code |-> DigitOnly[((k - 1) \div 2) + 1]]]

IsPrefix(short, long) ==
  /\ Len(short) <= Len(long)
  /\ \A k \in DOMAIN short : short[k] = long[k]

\* C15: a request is issued only when no earlier one is still awaited, the
\* requests to the primary source and the mirrors follow the fixed order,
\* and none of them is issued once a candidate has been accepted.
C15_OneAtATimeInFixedOrder ==
  [][requests' # requests
     => /\ pending = Null
        /\ Len(requests') = Len(requests) + 1
        /\ IsPrefix(LookupRequests', ExpectedRequests)
        /\ IsLookup(requests'[Len(requests')]) => (lookedUp = Null /\ accepted = Null)]_vars

C15_Witness ==
  /\ Len(LookupRequests) = 6
  /\ accepted # Null
  /\ accepted.source = "mirror"

WebRequested == \E k \in DOMAIN requests : requests[k].source = "web"

\* the record has a non-empty title, brand, description or category
HasDetails(record) ==
  IF record = Null THEN FALSE
  ELSE \E field \in {"title", "brand", "description", "category"} :
         record[field] # NullText /\ Len(record[field]) > 0

\* C16 as stated: the web search is requested only when neither the primary
\* source nor a mirror returned an accepted candidate.
C16_Original == WebRequested => accepted = Null

\* C16: the web search is requested only on a native platform and only when
\* the lookups gave no non-empty title, brand, description or category (no
\* accepted candidate, or an accepted one without any of them); when they
\* gave one it is never requested, and when they gave none on a native
\* platform it has been requested by the time the AI is called.
C16_WebSearchIffNoDetails ==
  /\ WebRequested => (isNativePlatform /\ ~HasDetails(lookedUp))
  /\ (rpc = "ai" /\ isNativePlatform /\ ~HasDetails(lookedUp)) => WebRequested

C16_Witness ==
  /\ WebRequested
  /\ accepted # Null
  /\ rpc = "ai"

\* the step after an await that ended without a body goes on with the next
\* code, endpoint or source
ContinuesWithNext ==
  /\ rpc' # "threw"
  /\ lookedUp' = lookedUp
  /\ accepted' = accepted
  /\ loopCodes' = loopCodes
  /\ IF pending.request.source = "primary"
     THEN /\ rpc' = "primary"
          /\ codeIndex' = codeIndex + 1
     ELSE IF pending.request.source = "mirror"
     THEN /\ rpc' = "mirror"
          /\ IF endpointIndex = 1
             THEN endpointIndex' = 2 /\ codeIndex' = codeIndex
             ELSE endpointIndex' = 1 /\ codeIndex' = codeIndex + 1
     ELSE /\ rpc' = "ai"
          /\ webSearchContext' = "null"

\* C17: a request that ends in a network failure, a timeout, a status outside
\* 200..299 or an unparseable body yields nothing: the lookup goes on with the
\* next variant, endpoint or source, and no exception leaves the lookups.
C17_FailureIsNothingFound ==
  [][(pending # Null /\ pending' = Null /\ lastOutcome' # "ok")
     => ContinuesWithNext]_vars

C17_Witness ==
  /\ lastOutcome = "unparseable"
  /\ rpc = "mirror"
  /\ endpointIndex = 2
  /\ codeIndex = 2

\* C18: every external call is guarded by a timeout, so the lookup phase
\* ends and the AI call is reached even if a source never answers.
C18_LookupPhaseCompletes == <>(rpc \in {"ai", "threw"})

\* C19: no (endpoint, variant) pair is requested twice.
C19_NoRequestTwice ==
  \A j, k \in DOMAIN requests : j # k => requests[j] # requests[k]

C19_Witness ==
  /\ Len(requests) = 7
  /\ lastOutcome = "timeout"

\* C20: for a barcode without any letter or digit no request is issued to
\* any source, the web search included.
C20_EmptyVariantSetNoRequest ==
  (\A k \in DOMAIN barcodeInput : barcodeInput[k] \notin BarcodeChars)
  => requests = << >>

\* the requirements with their required flags left out
WithoutFlags(list) ==
  [i \in 1 .. Len(list) |-> [list[i] EXCEPT !.required = "undefined"]]

\* what scoring and classification decided for each returned requirement
OutcomesOf(matches) ==
  [i \in 1 .. Len(matches) |->
     [requiredToolName |-> matches[i].requiredToolName,
      matchStatus |-> matches[i].matchStatus,
      ownedTool |-> matches[i].ownedTool,
      alternativeTool |-> matches[i].alternativeTool]]

DifferInFlagsOnly(first, second) ==
  /\ first.inventory = second.inventory
  /\ first.rawMatches # second.rawMatches
  /\ WithoutFlags(first.rawMatches) = WithoutFlags(second.rawMatches)

\* C22: two calls whose arguments differ only in the required flags of the
\* requirements return the same matchStatus, ownedTool and alternativeTool for
\* every requirement, and every requirement mapped carries required = false
\* exactly when the flag of its input is false; what is returned is one of
\* the requirements mapped.
C22_RequiredFlagOnlyCarried ==
  /\ \A j, k \in 1 .. Len(history) :
       (history[j].inventory = history[k].inventory
        /\ WithoutFlags(history[j].rawMatches) = WithoutFlags(history[k].rawMatches))
       => OutcomesOf(history[j].result) = OutcomesOf(history[k].result)
  /\ pc \in {"map", "dedup", "done"} =>
       /\ \A i \in 1 .. Len(normalized) :
            normalized[i].required = (rawMatches[i].required # "false")
       /\ pc = "done" => \A i \in 1 .. Len(result) : result[i] \in Range(normalized)

\* two completed calls that differ in a flag, the second with a flag left out
\* and a flag that is false, both returning an owned tool
C22_Witness ==
  /\ Len(history) = 2
  /\ DifferInFlagsOnly(history[1], history[2])
  /\ \E i, j \in 1 .. Len(history[2].rawMatches) :
       /\ history[2].rawMatches[i].required = "undefined"
       /\ history[2].rawMatches[j].required = "false"
  /\ \E i, j \in 1 .. Len(history[2].result) :
       /\ history[2].result[i].matchStatus = "owned"
       /\ history[2].result[i].required
       /\ ~history[2].result[j].required

\* the canonical form and the digit-only form, as the specification words them
CanonicalForm(code) ==
  LET alphanumeric(c) == c \in BarcodeChars
      kept == SelectSeq(code, alphanumeric)
  IN  [k \in DOMAIN kept |-> toUpperCase(kept[k])]
DigitOnlyForm(code) ==
  LET digit(c) == c \in Range(DigitChars)
  IN  SelectSeq(code, digit)
StatedVariants(code) ==
  ({CanonicalForm(code), DigitOnlyForm(code)}
   \cup (IF Len(DigitOnlyForm(code)) = 12
         THEN {<<"0">> \o DigitOnlyForm(code)} ELSE {})
   \cup (IF Len(DigitOnlyForm(code)) = 13 /\ Head(DigitOnlyForm(code)) = "0"
         THEN {Tail(DigitOnlyForm(code))} ELSE {}))
  \ {<< >>}

\* C23: what buildBarcodeVariants returns for a string holds no value twice
\* and no empty string, and its values are exactly the canonical form, the
\* digit-only form when non-empty, "0" + digits for 12 digits and the digits
\* without their leading zero for 13 digits that start with "0"; it is empty
\* exactly when the string has no character of 0-9, A-Z, a-z.
C23_VariantsAreExactlyTheStatedSet ==
  \A k \in 1 .. Len(expansions) :
    /\ Range(expansions[k]) = StatedVariants(codes[k])
    /\ Cardinality(Range(expansions[k])) = Len(expansions[k])
    /\ << >> \notin Range(expansions[k])
    /\ expansions[k] = << >> <=> Range(codes[k]) \cap BarcodeChars = {}

\* a code of letters and 12 digits and one of letters and 13 digits were
\* expanded to three variants each, and an all-digit code to two
C23_Witness ==
  /\ Len(expansions) = 2
  /\ \/ /\ codes = <<CodeMixed, CodeMixedEan>>
        /\ Len(expansions[1]) = 3
        /\ Len(expansions[2]) = 3
        /\ Tail(DigitOnlyForm(codes[2])) \in Range(expansions[2])
     \/ /\ IsDigits(codes[1])
        /\ Len(codes[1]) = 12
        /\ Len(expansions[1]) = 2

\* what the synonym loop added to the score of the candidate just scored: the
\* score less the substring bonus and the token-overlap part
SynonymPart ==
  LET name == requiredToolNameOf(rawMatches[index])
      tokens == toTokens(name)
      candidate == inventory[scanned]
  IN  scores[scanned]
      - (IF substringCondition(normalizeText(name), candidate) THEN 840 ELSE 0)
      - (IF Len(tokens) > 0
         THEN (overlapCount(tokens, candidate) * 360) \div Len(tokens)
         ELSE 0)

\* C24: the synonym bonus of a candidate is 0.08 (96 in units of 1/1200) times
\* the number of distinct requirement tokens that are keys of the synonym
\* table with a synonym phrase inside the candidate's normalized text; a
\* repeated token counts once.
C24_SynonymBonusPerDistinctToken ==
  (pc = "map" /\ scanned >= 1) =>
    SynonymPart =
      LET tokens == toTokens(requiredToolNameOf(rawMatches[index]))
      IN  96 * Cardinality({tokens[p] : p \in TokensWithSynonym(tokens, inventory[scanned])})

\* invalidateCache(keyOrPrefix) took a cache from `before` to `after` as
\* stated: the stored key alone, otherwise every stored key with the prefix
RemovesAsStated(before, after, keyOrPrefix, time) ==
  LET stored == mapKeys(before)
      removed == stored \ mapKeys(after)
  IN  /\ mapKeys(after) \subseteq stored
      /\ removed = IF keyOrPrefix \in stored THEN {keyOrPrefix}
                   ELSE {key \in stored : startsWith(key, keyOrPrefix)}
      /\ \A key \in removed : getCached(after, key, time) = "null"
      /\ \A key \in stored \ removed : mapGet(after, key) = mapGet(before, key)

\* the statement of C25 for the module that scans the keys
ScanRemovesAsStated ==
  [][\A keyOrPrefix \in InvalidateArguments :
       InvalidateCache(keyOrPrefix)
       => RemovesAsStated(cache, cache', keyOrPrefix, now')]_vars

\* C25: invalidateCache(k) removes exactly the entry of k when k is a stored
\* key, and otherwise exactly the stored keys that start with k; no other
\* entry changes, and getCached returns null for every removed key.  Stated of
\* both modules that export invalidateCache.
C25_InvalidateRemovesKeyOrPrefix ==
  [][\A keyOrPrefix \in InvalidateArguments :
       InvalidateCache(keyOrPrefix)
       => /\ RemovesAsStated(cache, cache', keyOrPrefix, now')
          /\ RemovesAsStated(indexedCache, indexedCache', keyOrPrefix, now')]_vars

\* C27: after the same calls, getCached returns the same for every key in the
\* module that scans the keys and in the module with the prefix index.
C27_SameResultInBothModules ==
  \A key \in InvalidateArguments :
    getCached(cache, key, now) = getCached(indexedCache, key, now)

\* C30: in the module with the prefix index, the key sets of the index
\* together are the keys of the cache, every key is in the set of
\* extractPrefix(key) and in no other, and no set of the index is empty.
C30_IndexAgreesWithCache ==
  /\ UNION {prefixIndex[k].value : k \in DOMAIN prefixIndex} = mapKeys(indexedCache)
  /\ \A k \in DOMAIN prefixIndex :
       /\ prefixIndex[k].value # {}
       /\ \A key \in prefixIndex[k].value : prefixIndex[k].key = extractPrefix(key)
  /\ \A j, k \in DOMAIN prefixIndex :
       prefixIndex[j].key = prefixIndex[k].key => j = k

\* three keys were stored and one call of invalidateCache removed the two
\* filed under "a:", whose set is gone with them
C30_Witness ==
  /\ cacheLog = <<"setCache", "setCache", "setCache", "invalidateCache">>
  /\ mapKeys(indexedCache) = {KeyPlain}
  /\ Len(prefixIndex) = 1
  /\ prefixIndex[1] = [key |-> KeyPlain, value |-> {KeyPlain}]

\* the configured candidates of the running call
Candidates == modelsOf(modelCandidates, provider, storedModels)

\* the attempts so far are the first candidates in list order, each made
\* after all earlier ones had thrown, at most the last one still running
AttemptsInListOrder ==
  /\ Len(attempts) <= Len(Candidates)
  /\ \A i \in 1 .. Len(attempts) :
       /\ attempts[i].model = Candidates[i]
       /\ i < Len(attempts) => attempts[i].ended = "threw"
       /\ attempts[i].ended = "pending" => gpc = "calling"
       /\ attempts[i].ended = "returned" => gpc = "returned"

\* the call returned the first success, with the name of its model
ReturnsFirstSuccess ==
  gpc = "returned" =>
    /\ attempts # << >>
    /\ attempts[Len(attempts)].ended = "returned"
    /\ generated.model = attempts[Len(attempts)].model
    /\ generated.provider = provider

EveryCandidateFailed ==
  /\ Len(attempts) = Len(Candidates)
  /\ \A i \in 1 .. Len(attempts) : attempts[i].ended = "threw"

AllSyncsReturned ==
  /\ \E s \in Syncs : syncPc[s] = "returned"
  /\ \A s \in Syncs : syncPc[s] \in {"idle", "returned"}

\* C29: on a native device with reminders enabled, when every call of
\* syncSmartReminders triggered so far has returned and the data has not
\* changed since the last of them started, the notification of each category
\* is pending exactly when the category's current count is above zero.
C29_PendingIffCurrentCountPositive ==
  (/\ reminderPlatform = "native"
   /\ remindersEnabled
   /\ AllSyncsReturned
   /\ ~changedSinceLastStart)
  => \A category \in ReminderCategories :
       pendingNotifications[category] > 0 <=> countOf(reminderData, category) > 0

\* the status of a ToolMatch and its two slots agree
StatusAgreesWithSlots(match) ==
  /\ match.matchStatus \in {"owned", "alternative", "missing"}
  /\ match.matchStatus = "owned" <=> match.ownedTool # Null
  /\ match.matchStatus = "alternative" <=> match.alternativeTool # Null
  /\ match.matchStatus = "missing" <=>
       (match.ownedTool = Null /\ match.alternativeTool = Null)
  /\ ~(match.ownedTool # Null /\ match.alternativeTool # Null)

\* C26: in every ToolMatch the map callback builds and in every ToolMatch
\* normalizeToolMatches returns, matchStatus is 'owned' exactly when ownedTool
\* is set, 'alternative' exactly when alternativeTool is set, 'missing' exactly
\* when neither is, and the two slots are never both set.
C26_StatusAgreesWithSlots ==
  /\ pc \in {"map", "dedup", "done"} =>
       \A i \in 1 .. Len(normalized) : StatusAgreesWithSlots(normalized[i])
  /\ pc = "done" => \A i \in 1 .. Len(result) : StatusAgreesWithSlots(result[i])

\* a call returned a requirement the remote model marked missing and the
\* heuristic promoted to owned, with the alternative slot cleared
C26_Witness ==
  /\ pc = "done"
  /\ Len(result) = 1
  /\ rawMatches[1].matchStatus = "missing"
  /\ rawMatches[1].ownedTool = Null
  /\ rawMatches[1].alternativeTool = Null
  /\ result[1].matchStatus = "owned"
  /\ result[1].ownedTool # Null
  /\ result[1].alternativeTool = Null

\* the specs of the answer, {} when it has none
AnsweredSpecs == IF parsed.specs = Null THEN NoSpecs ELSE parsed.specs

\* the returned analysis holds what the answer holds, the raw barcode where
\* the answer names none, and links that are the answer's own or a search
\* for the answer's name and the barcode
AnswerAndBarcodeOnly ==
  /\ analysis.name = parsed.name
  /\ analysis.description = parsed.description
  /\ analysis.category = parsed.category
  /\ analysis.specs.Barcode \notin {NullText, << >>}
  /\ analysis.specs.Barcode =
       IF AnsweredSpecs.Barcode \in {NullText, << >>}
       THEN barcodeInput
       ELSE AnsweredSpecs.Barcode
  /\ analysis.specs.Brand = AnsweredSpecs.Brand
  /\ analysis.productUrl \in
       {parsed.productUrl,
        <<"h", "t", "t", "p", "s", ":", "/", "/", "w", "w", "w", ".", "g", "o", "o", "g", "l", "e", ".", "c", "o", "m", "/", "s", "e", "a", "r", "c", "h", "?", "q", "=">>
          \o encodeURIComponent(parsed.name \o <<" ">> \o barcodeInput \o <<" ", "p", "r", "o", "d", "u", "c", "t">>)}
  /\ analysis.imageUrl \in {parsed.imageUrl, NullText}

\* C21: when the lookups and the web search gave nothing, analyzeBarcode does
\* not fail for it: it fails only if the AI call was made and failed or gave
\* no JSON, and when it returns, name, description and category are those of
\* the answer, specs.Barcode is non-empty (the raw barcode where the answer
\* has none) and nothing comes from a lookup.
C21_NothingFoundIsAiOnly ==
  /\ (lookedUp = Null /\ apiKey # "" /\ rpc = "threw") => aiText # Null
  /\ (lookedUp = Null /\ rpc = "returned") => AnswerAndBarcodeOnly

C21_Witness ==
  /\ rpc = "returned"
  /\ lookedUp = Null
  /\ Len(requests) > 3
  /\ WebRequested
  /\ AnsweredSpecs.Barcode = << >>
  /\ analysis.specs.Barcode = barcodeInput

====
